---- MODULE Spec2Model ----
\* A model of the log editor (src/src/editor.ts): the post codec, the index
\* materializer, the commit protocol against the remote store, and the
\* create / edit / delete workflows.
\*
\* Text is modelled as a sequence of one-character strings.  An HTML document
\* is modelled by the parts the code writes and reads back: the inner HTML of
\* each element the parser looks at, and the index table as its sequence of
\* header rows and post rows.
EXTENDS Integers, Sequences, FiniteSets, TLC

\* ------------------------------------------------------------------ bounds

\* workflows (saves and confirmed deletes) one run dispatches
MaxOps == 2
\* commits another writer pushes to the branch during one run
MaxOther == 1
\* length of the content text the codec round trip is tried on
MaxContentLen == 4
\* length of the tail appended to the long titles slugify is tried on
MaxTailLen == 2

\* requests the worker serves on /api/tle/gnss
MaxRequests == 3

\* ------------------------------------------------------- program constants

\* .slice(0, 50) in slugify
SlugMax == 50
\* ta.value.slice(0, 40) in execCmd
TitleMax == 40

\* null, and every other falsy string the code tests with if (x)
Null == <<>>

MONTHS ==
  <<"january", "february", "march", "april", "may", "june", "july",
    "august", "september", "october", "november", "december">>

\* ------------------------------------------------------------------- text

IsWs(c) == c \in {" ", "\n"}

RECURSIVE TrimLeft(_)
TrimLeft(s) ==
  IF s # <<>> /\ IsWs(Head(s)) THEN TrimLeft(Tail(s)) ELSE s

RECURSIVE TrimRight(_)
TrimRight(s) ==
  IF s # <<>> /\ IsWs(s[Len(s)]) THEN TrimRight(SubSeq(s, 1, Len(s) - 1)) ELSE s

\* String.prototype.trim
Trim(s) == TrimRight(TrimLeft(s))

RECURSIVE Join(_, _)
Join(parts, sep) ==
  IF parts = <<>> THEN <<>>
  ELSE IF Len(parts) = 1 THEN parts[1]
  ELSE parts[1] \o sep \o Join(Tail(parts), sep)

\* esc: & < > become entities
EscChar(c) ==
  IF c = "&" THEN <<"&", "a", "m", "p", ";">>
  ELSE IF c = "<" THEN <<"&", "l", "t", ";">>
  ELSE IF c = ">" THEN <<"&", "g", "t", ";">>
  ELSE <<c>>

RECURSIVE esc(_)
esc(s) == IF s = <<>> THEN <<>> ELSE EscChar(Head(s)) \o esc(Tail(s))

HasPrefix(s, p) == Len(s) >= Len(p) /\ SubSeq(s, 1, Len(p)) = p

Drop(s, n) == SubSeq(s, n + 1, Len(s))

\* Element.textContent of escaped text: the parser decodes the entities
RECURSIVE textContent(_)
textContent(s) ==
  IF s = <<>> THEN <<>>
  ELSE IF HasPrefix(s, <<"&", "a", "m", "p", ";">>) THEN <<"&">> \o textContent(Drop(s, 5))
  ELSE IF HasPrefix(s, <<"&", "l", "t", ";">>) THEN <<"<">> \o textContent(Drop(s, 4))
  ELSE IF HasPrefix(s, <<"&", "g", "t", ";">>) THEN <<">">> \o textContent(Drop(s, 4))
  ELSE <<Head(s)>> \o textContent(Tail(s))

\* number of newlines s starts with
RECURSIVE NlRun(_)
NlRun(s) == IF s # <<>> /\ Head(s) = "\n" THEN 1 + NlRun(Tail(s)) ELSE 0

\* content.split(/\n\n+/): cur is the piece being read
RECURSIVE SplitFrom(_, _)
SplitFrom(s, cur) ==
  IF s = <<>> THEN <<cur>>
  ELSE IF NlRun(s) >= 2 THEN <<cur>> \o SplitFrom(Drop(s, NlRun(s)), <<>>)
  ELSE SplitFrom(Tail(s), Append(cur, Head(s)))

SplitParas(s) == SplitFrom(s, <<>>)

\* .filter(Boolean) on strings drops the empty ones
FilterNonEmpty(parts) == SelectSeq(parts, LAMBDA p : p # <<>>)

Indent == <<" ", " ", " ", " ", " ", " ", " ", " ">>

\* .replace(/\n/g, '\n        ')
RECURSIVE IndentLines(_)
IndentLines(s) ==
  IF s = <<>> THEN <<>>
  ELSE IF Head(s) = "\n" THEN <<"\n">> \o Indent \o IndentLines(Tail(s))
  ELSE <<Head(s)>> \o IndentLines(Tail(s))

\* ------------------------------------------------------------- post codec

\* A post document: slug is the text of the title, breadcrumb and h1; date the
\* datetime of the time element; type the class of the post-type span;
\* transcript whether the body is wrapped in div.spoken-transcript; paras the
\* inner HTML of each body p; tags the inner HTML of each span.tag; hasNav
\* whether the document holds a nav.post-nav block, nav its anchors and
\* navLead the number of spaces between the line break that ends the blank
\* line after main and the opening of that block.
Anchor(cls, slug, text) == [cls |-> cls, href |-> <<slug, ".html">>, text |-> text]

\* the anchors generatePost and updatePostNav both build
NavAnchors(prevSlug, nextSlug) ==
  (IF prevSlug # Null THEN <<Anchor("prev", prevSlug, <<"<-", prevSlug>>)>> ELSE <<>>)
  \o <<Anchor("back", "../index", IF prevSlug # Null THEN <<"~/log">> ELSE <<"<-", "~/log">>)>>
  \o (IF nextSlug # Null THEN <<Anchor("next", nextSlug, <<nextSlug, "->">>)>> ELSE <<>>)

ParaHtml(p) ==
  <<"\n">> \o Indent \o IndentLines(esc(Trim(p))) \o <<"\n", " ", " ", " ", " ", " ", " ">>

generatePost(o) ==
  LET split == FilterNonEmpty(SplitParas(o.content))
  IN  [slug       |-> o.slug,
       date       |-> o.date,
       type       |-> o.type,
       transcript |-> (o.type = "spoken"),
       paras      |-> [i \in 1..Len(split) |-> ParaHtml(split[i])],
       tags       |-> [i \in 1..Len(o.tags) |-> esc(o.tags[i])],
       hasNav     |-> TRUE,
       navLead    |-> 2,
       nav        |-> NavAnchors(o.prevSlug, o.nextSlug)]

\* href.replace('.html', '') of the first anchor of the class, null when none
NavTarget(doc, cls) ==
  LET hits == SelectSeq(doc.nav, LAMBDA a : a.cls = cls)
  IN  IF doc.hasNav /\ hits # <<>> THEN hits[1].href[1] ELSE Null

parsePost(html) ==
  [slug     |-> html.slug,
   date     |-> html.date,
   type     |-> IF html.type = "spoken" THEN "spoken" ELSE "written",
   content  |-> Join([i \in 1..Len(html.paras) |-> Trim(textContent(html.paras[i]))],
                     <<"\n", "\n">>),
   tags     |-> [i \in 1..Len(html.tags) |-> Trim(textContent(html.tags[i]))],
   prevSlug |-> NavTarget(html, "prev"),
   nextSlug |-> NavTarget(html, "next")]

\* html.slice(0, s) ends with the spaces that led to the old block, and the
\* block written after it opens with two spaces of its own
updatePostNav(html, prevSlug, nextSlug) ==
  IF ~html.hasNav THEN html
  ELSE [html EXCEPT !.nav = NavAnchors(prevSlug, nextSlug), !.navLead = @ + 2]

\* ------------------------------------------------------------------ index

\* A date is a record [y, m, d], y the four digits of the year as a string.
\* The index document is the text of its count
\* paragraph and the rows of its table body, top to bottom: year headers,
\* month headers and post rows.
NoDate == [y |-> "", m |-> 0, d |-> 0]

YearHeader(year) ==
  [k |-> "year", head |-> <<year>>, slug |-> "", date |-> NoDate, type |-> "",
   ts |-> "", desc |-> <<>>]

MonthHeader(month) ==
  [k |-> "month", head |-> <<month>>, slug |-> "", date |-> NoDate, type |-> "",
   ts |-> "", desc |-> <<>>]

\* the row addToIndex builds; slug is the target of its link
PostRow(date, type, slug, desc) ==
  [k |-> "row", head |-> <<>>, slug |-> slug, date |-> date, type |-> type,
   ts |-> IF type = "spoken" THEN "spkn" ELSE "writ", desc |-> esc(desc)]

\* String.prototype.indexOf on the table rows: hits says of each row whether
\* it holds the text looked for; the first such row, 0 when there is none
FirstIndex(hits) ==
  IF \E i \in 1..Len(hits) : hits[i]
  THEN CHOOSE i \in 1..Len(hits) : hits[i] /\ \A j \in 1..(i - 1) : ~hits[j]
  ELSE 0

InsertAfter(rows, pos, new) == SubSeq(rows, 1, pos) \o new \o SubSeq(rows, pos + 1, Len(rows))

RowCount(rows) == Len(SelectSeq(rows, LAMBDA r : r.k = "row"))

CountText(n) == IF n = 1 THEN <<1, "entry">> ELSE <<n, "entries">>

\* updateCount leaving the count paragraph as it found it
updateCountStale(html) == html

updateCount(html) == [html EXCEPT !.count = CountText(RowCount(html.rows))]

addToIndex(html, date, type, slug, desc) ==
  LET month    == MONTHS[date.m]
      year     == date.y
      row      == PostRow(date, type, slug, desc)
      IsYear(r)  == r.k = "year" /\ r.head = <<year>>
      IsMonth(r) == r.k = "month" /\ r.head = <<month>>
      yearPos  == FirstIndex([i \in 1..Len(html.rows) |-> IsYear(html.rows[i])])
      monthPos == FirstIndex([i \in 1..Len(html.rows) |-> IsMonth(html.rows[i])])
      hasYear  == yearPos > 0
      hasMonth == monthPos > 0
  IN  updateCount(
        IF hasMonth
        THEN [html EXCEPT !.rows = InsertAfter(@, monthPos, <<row>>)]
        ELSE IF hasYear
        THEN [html EXCEPT !.rows = InsertAfter(@, yearPos, <<MonthHeader(month), row>>)]
        ELSE [html EXCEPT !.rows = <<YearHeader(year), MonthHeader(month), row>> \o @])

\* the text 'posts/' + slug + '.html' as one element of a description
PathText(slug) ==
  IF slug = <<"a">> THEN "posts/a.html"
  ELSE IF slug = <<"b">> THEN "posts/b.html"
  ELSE IF slug = <<"c">> THEN "posts/c.html"
  ELSE "posts/?.html"

\* whether the text of row r holds 'posts/' + slug + '.html': in the href of
\* its link, or in its description
HoldsPath(r, slug) ==
  /\ r.k = "row"
  /\ \/ r.slug = slug
     \/ \E i \in 1..Len(r.desc) : r.desc[i] = PathText(slug)

removeFromIndex(html, slug) ==
  LET IsTarget(r) == HoldsPath(r, slug)
      pos == FirstIndex([i \in 1..Len(html.rows) |-> IsTarget(html.rows[i])])
  IN  IF pos = 0 THEN html
      ELSE updateCount([html EXCEPT !.rows = SubSeq(@, 1, pos - 1) \o SubSeq(@, pos + 1, Len(@))])

getNewestSlug(html) ==
  LET s == FirstIndex([i \in 1..Len(html.rows) |-> html.rows[i].k = "row"])
  IN  IF s = 0 THEN Null ELSE html.rows[s].slug

getDescFromIndex(html, slug) ==
  LET IsTarget(r) == r.k = "row" /\ r.slug = slug
      pos == FirstIndex([i \in 1..Len(html.rows) |-> IsTarget(html.rows[i])])
  IN  IF pos = 0 THEN <<>> ELSE html.rows[pos].desc

\* the slugs of the post rows, top to bottom
RowSlugs(html) ==
  LET rs == SelectSeq(html.rows, LAMBDA r : r.k = "row")
  IN  [i \in 1..Len(rs) |-> rs[i].slug]

\* ----------------------------------------------------------- remote store

\* A tree is the content of a commit: the index document, the post documents
\* by slug, and misc, standing for every other file of the repository.
IndexPath == <<"index.html">>

PostPath(slug) == <<"posts", slug>>

NoDoc ==
  [slug |-> <<>>, date |-> NoDate, type |-> "", transcript |-> FALSE, paras |-> <<>>,
   tags |-> <<>>, hasNav |-> FALSE, navLead |-> 0, nav |-> <<>>]

NoIndex == [count |-> <<0, "">>, rows |-> <<>>]

\* FileEntry values of a changeset
WritePost(slug, doc) == [path |-> PostPath(slug), delete |-> FALSE, doc |-> doc, idx |-> NoIndex]

WriteIndex(idx) == [path |-> IndexPath, delete |-> FALSE, doc |-> NoDoc, idx |-> idx]

\* the entry of a path that is written empty instead of being deleted
DeletePostAsWrite(slug) ==
  [path |-> PostPath(slug), delete |-> FALSE, doc |-> NoDoc, idx |-> NoIndex]

DeletePost(slug) == [path |-> PostPath(slug), delete |-> TRUE, doc |-> NoDoc, idx |-> NoIndex]

\* one tree entry laid over a base tree
OverlayEntry(tree, f) ==
  IF f.path = IndexPath THEN [tree EXCEPT !.index = f.idx]
  ELSE IF f.delete
  THEN [tree EXCEPT !.posts = [s \in (DOMAIN @) \ {f.path[2]} |-> @[s]]]
  ELSE [tree EXCEPT !.posts = [s \in (DOMAIN @) \cup {f.path[2]} |->
                                 IF s = f.path[2] THEN f.doc ELSE @[s]]]

RECURSIVE Overlay(_, _)
Overlay(tree, files) ==
  IF files = <<>> THEN tree ELSE Overlay(OverlayEntry(tree, Head(files)), Tail(files))

Reverse(q) == [i \in 1..Len(q) |-> q[Len(q) + 1 - i]]

\* POST git/trees without base_tree: the entries laid over nothing
NewTreesNoBase(base, files) ==
  LET none == [index |-> [count |-> <<0, "entries">>, rows |-> <<>>], posts |-> <<>>, misc |-> 0]
  IN  {Overlay(none, files), Overlay(none, Reverse(files))}

\* POST git/trees: the base tree with the entries laid over it.  When two
\* entries name one path the host keeps either of them.
NewTrees(base, files) == {Overlay(base, files), Overlay(base, Reverse(files))}

RECURSIVE IsAncestor(_, _, _)
\* whether commit a is commit c or one of its ancestors
IsAncestor(cs, a, c) ==
  IF c = a THEN TRUE
  ELSE IF c = 0 THEN FALSE
  ELSE IsAncestor(cs, a, cs[c].parent)

\* PATCH git/refs/heads/main {sha, force: true}: the host moves the branch anywhere
ForcedUpdate(cs, cur, new) == TRUE

\* PATCH git/refs/heads/main {sha} carries no force flag: the host moves the
\* branch only to a descendant of its current head
FastForward(cs, cur, new) == IsAncestor(cs, cur, new)

\* slugify: toLowerCase, runs outside [a-z0-9] become one hyphen, one leading
\* and one trailing hyphen dropped, then the first 50 characters kept
Lower(c) ==
  IF c = "A" THEN "a" ELSE IF c = "B" THEN "b" ELSE IF c = "C" THEN "c" ELSE c

IsSlugChar(c) == c \in {"a", "b", "c", "x", "1"}

RECURSIVE Hyphenate(_, _)
\* .replace(/[^a-z0-9]+/g, '-'); inRun says the last character read was replaced
Hyphenate(s, inRun) ==
  IF s = <<>> THEN <<>>
  ELSE IF IsSlugChar(Head(s)) THEN <<Head(s)>> \o Hyphenate(Tail(s), FALSE)
  ELSE IF inRun THEN Hyphenate(Tail(s), TRUE)
  ELSE <<"-">> \o Hyphenate(Tail(s), TRUE)

\* .replace(/^-|-$/g, '')
StripHyphens(s) ==
  LET a == IF s # <<>> /\ Head(s) = "-" THEN Tail(s) ELSE s
  IN  IF a # <<>> /\ a[Len(a)] = "-" THEN SubSeq(a, 1, Len(a) - 1) ELSE a

Slice(s, n) == SubSeq(s, 1, IF Len(s) < n THEN Len(s) ELSE n)

slugify(t) ==
  Slice(StripHyphens(Hyphenate([i \in 1..Len(t) |-> Lower(t[i])], FALSE)), SlugMax)

\* ------------------------------------------------------------------ state

VARIABLES
  head,     \* the commit the branch points at (a position in commits)
  commits,  \* every commit object the host holds: [parent, tree]
  valid,    \* the tokens the host accepts
  others,   \* commits pushed by the other writer so far
  now,      \* the calendar date of the run, a position in Dates
  token,    \* localStorage vimsite_token, NoToken when absent
  pc,       \* where the client is: idle, an overlay, or the request in flight
  ed,       \* the open editor: its options and the type shown
  wf,       \* the running workflow: the values its promise chain holds; again
            \* says whether it is a save of the slug the same open editor
            \* has already committed
  mc,       \* the locals of multiCommit
  status,   \* the text of the status line or of the delete dialog
  ops,      \* workflows dispatched so far
  done,     \* the last workflow that settled, and how; reused says whether
            \* any create so far committed under a slug already stored
  codec,    \* a codec round trip: stage, post, html, out
  slugRun,  \* a slugify run: stage, input, out
  indexRun, \* a run of the index operations: stage, html, out, steps
  kb,       \* an open editor seen key by key: its mode, buffer, fields, saves
  tle       \* the worker's /api/tle/gnss route: its edge cache, the request it
            \* is serving, the last answer of the upstream and the last response

vars ==
  <<head, commits, valid, others, now, token, pc, ed, wf, mc, status, ops, done,
    codec, slugRun, indexRun, kb, tle>>

storeVars == <<head, commits>>

pureVars == <<codec, slugRun, indexRun, kb, tle>>

clientVars == <<head, commits, valid, others, now, token, pc, ed, wf, mc, status, ops, done>>

NoToken == "none"

Tokens == {"t1"}

\* the dates a run can take place on, in order
Dates ==
  <<[y |-> "2024", m |-> 1, d |-> 5],
    [y |-> "2024", m |-> 12, d |-> 5],
    [y |-> "2025", m |-> 1, d |-> 5]>>

\* today()
today == Dates[now]

HeadTree == commits[head].tree

NoPost ==
  [slug |-> <<>>, date |-> NoDate, type |-> "", content |-> <<>>, tags |-> <<>>,
   prevSlug |-> Null, nextSlug |-> Null]

NoResult == [slug |-> <<>>, type |-> "", content |-> <<>>, desc |-> <<>>, tags |-> <<>>]

NoEditor ==
  [mode |-> "none", slug |-> <<>>, post |-> NoPost, idx |-> NoIndex, desc |-> <<>>,
   typeVal |-> "", token |-> NoToken, held |-> {}]

NoWorkflow ==
  [kind |-> "none", cmd |-> "", slug |-> <<>>, token |-> NoToken, stage |-> 0,
   r |-> NoResult, post |-> NoPost, files |-> <<>>, adj |-> {}, reads |-> {},
   reused |-> FALSE, again |-> FALSE, entry |-> ""]

EmptyTree == [index |-> [count |-> CountText(0), rows |-> <<>>], posts |-> <<>>, misc |-> 0]

NoCommit == [commitSha |-> 0, base |-> EmptyTree, tree |-> EmptyTree, commit |-> 0]

\* The failure of a request: the status of the response and its body, the
\* body as the sequence of its words.
NoError == [code |-> 0, text |-> <<>>]

NoDone ==
  [kind |-> "none", ok |-> FALSE, slug |-> <<>>, error |-> NoError, commit |-> 0,
   files |-> <<>>, reads |-> {}, commitSha |-> 0, headAt |-> 0, reused |-> FALSE]

\* ---------------------------------------------------- initial collections

\* the links of a stored document
PrevOf(posts, s) == NavTarget(posts[s], "prev")

NextOf(posts, s) == NavTarget(posts[s], "next")

\* A.nextSlug = B exactly when B.prevSlug = A
LinksAgree(posts) ==
  \A a \in DOMAIN posts : \A b \in DOMAIN posts :
    (NextOf(posts, a) = b) <=> (PrevOf(posts, b) = a)

RECURSIVE ReachedIn(_, _, _, _)
\* whether following nextSlug from s arrives at target in 1..n steps
ReachedIn(posts, s, target, n) ==
  IF n = 0 \/ s \notin DOMAIN posts THEN FALSE
  ELSE NextOf(posts, s) = target \/ ReachedIn(posts, NextOf(posts, s), target, n - 1)

NoCycle(posts) ==
  \A a \in DOMAIN posts : ~ReachedIn(posts, a, a, Cardinality(DOMAIN posts))

OneHeadOneTail(posts) ==
  /\ Cardinality({a \in DOMAIN posts : PrevOf(posts, a) = Null}) <= 1
  /\ Cardinality({a \in DOMAIN posts : NextOf(posts, a) = Null}) <= 1

LinkedList(posts) == LinksAgree(posts) /\ NoCycle(posts) /\ OneHeadOneTail(posts)

RECURSIVE WalkFrom(_, _, _)
\* the slugs met from s following nextSlug, at most n of them
WalkFrom(posts, s, n) ==
  IF n = 0 \/ s = Null \/ s \notin DOMAIN posts THEN <<>>
  ELSE <<s>> \o WalkFrom(posts, NextOf(posts, s), n - 1)

\* the chronology: the walk from the post whose prevSlug is null
Chronology(posts) ==
  LET heads == {a \in DOMAIN posts : PrevOf(posts, a) = Null}
  IN  IF heads = {} THEN <<>>
      ELSE WalkFrom(posts, CHOOSE a \in heads : TRUE, Cardinality(DOMAIN posts) + 1)

SeqRange(q) == {q[i] : i \in 1..Len(q)}

\* a collection as section 3 of the design describes it
Consistent(tree) ==
  /\ LinkedList(tree.posts)
  /\ RowSlugs(tree.index) = Chronology(tree.posts)
  /\ SeqRange(RowSlugs(tree.index)) = DOMAIN tree.posts
  /\ Len(RowSlugs(tree.index)) = Cardinality(DOMAIN tree.posts)
  /\ tree.index.count = CountText(RowCount(tree.index.rows))
  /\ \A s \in DOMAIN tree.posts : tree.posts[s].slug = s

RECURSIVE BuildTree(_)
\* the tree holding the posts ps (oldest first), each spliced in at the head
BuildTree(ps) ==
  IF ps = <<>> THEN EmptyTree
  ELSE
    LET t      == BuildTree(SubSeq(ps, 1, Len(ps) - 1))
        p      == ps[Len(ps)]
        newest == getNewestSlug(t.index)
        doc    == generatePost([slug |-> p.slug, date |-> p.date, type |-> p.type,
                                content |-> <<"c">>, tags |-> <<>>,
                                prevSlug |-> Null, nextSlug |-> newest])
        index  == addToIndex(t.index, p.date, p.type, p.slug, p.slug)
        patch  == IF newest = Null THEN <<>>
                  ELSE <<WritePost(newest, updatePostNav(t.posts[newest], p.slug,
                                                        NextOf(t.posts, newest)))>>
    IN  Overlay(t, <<WritePost(p.slug, doc), WriteIndex(index)>> \o patch)

Stored(slug, date, type) == [slug |-> slug, date |-> date, type |-> type]

\* the collections a run starts from, each with the date it starts at
InitialCollections ==
  { [posts |-> <<>>, now |-> 1],
    [posts |-> <<Stored(<<"a">>, Dates[1], "spoken")>>, now |-> 2],
    [posts |-> <<Stored(<<"a">>, Dates[1], "spoken"),
                 Stored(<<"b">>, Dates[1], "written")>>, now |-> 1],
    [posts |-> <<Stored(<<"a">>, Dates[1], "spoken"),
                 Stored(<<"b">>, Dates[2], "written")>>, now |-> 3],
    [posts |-> <<Stored(<<"a">>, Dates[1], "spoken"),
                 Stored(<<"b">>, Dates[1], "written"),
                 Stored(<<"c">>, Dates[1], "spoken")>>, now |-> 1] }

\* the slugs the page can hand to editEntry and deleteEntry
PageSlugs == {<<"a">>, <<"b">>, <<"c">>}

\* what the user types into the editor
SlugInputs == {<<>>, <<"a">>, <<"B">>}

ContentInputs == {<<>>, <<"c">>}

DescInputs == {<<>>}

TagInputs == {<<>>}

CodecIdle ==
  [stage |-> "off", post |-> NoPost, html |-> NoDoc, out |-> NoPost, patched |-> NoDoc,
   links |-> <<Null, Null>>, steps |-> 0]

SlugIdle == [stage |-> "off", input |-> <<>>, out |-> <<>>]

IndexIdle ==
  [stage |-> "off", html |-> NoIndex, slug |-> <<>>, date |-> NoDate, out |-> NoIndex,
   steps |-> 0]

\* a body as JSON.parse and Array.isArray see it: text that does not parse,
\* or a value that is an array of len elements or is none
NoBody == [json |-> "none", len |-> 0]

NoAnswer == [net |-> "none", status |-> 0, body |-> NoBody]

NoResponse == [status |-> 0, body |-> NoBody, error |-> "", hit |-> FALSE]

TleIdle ==
  [stage |-> "idle", cache |-> NoAnswer, put |-> NoAnswer, last |-> NoAnswer,
   resp |-> NoResponse, fetches |-> 0, requests |-> 0]

NoFields == [slug |-> <<>>, content |-> <<>>, desc |-> <<>>, tags |-> <<>>]

KbIdle ==
  [open |-> FALSE, mode |-> "none", slug |-> <<>>, typeVal |-> "", fields |-> NoFields,
   manual |-> FALSE, cmdMode |-> FALSE, cmdBuf |-> <<>>, focus |-> "none", status |-> "",
   pending |-> <<>>, saves |-> 0, key |-> "none"]

InitClient(c) ==
  /\ head = 1
  /\ commits = <<[parent |-> 0, tree |-> BuildTree(c.posts)]>>
  /\ valid = Tokens
  /\ others = 0
  /\ now = c.now
  /\ token = "t1"
  /\ pc = "idle"
  /\ ed = NoEditor
  /\ wf = NoWorkflow
  /\ mc = NoCommit
  /\ status = [text |-> "", error |-> NoError]
  /\ ops = 0
  /\ done = NoDone

Init ==
  /\ \E c \in InitialCollections : InitClient(c) /\ Consistent(BuildTree(c.posts))
  /\ codec = CodecIdle
  /\ slugRun = SlugIdle
  /\ indexRun = IndexIdle
  /\ kb = KbIdle
  /\ tle = TleIdle

\* -------------------------------------------------------------- requests

AuthError == [code |-> 401, text |-> <<"Bad", "credentials">>]

NotFound == [code |-> 404, text |-> <<"Not", "Found">>]

Conflict == [code |-> 422, text |-> <<"Update", "is", "not", "a", "fast", "forward">>]

\* a failure inside the host, with the body the host sends along
ServerError(body) == [code |-> 500, text |-> body]

\* bodies of such a failure: plain, and one that quotes a number
HostBodies == {<<"Server", "Error">>, <<"Server", "Error", "ref", "403">>}

StatusText(code) ==
  CASE code = 401 -> "401"
    [] code = 403 -> "403"
    [] code = 404 -> "404"
    [] code = 422 -> "422"
    [] code = 500 -> "500"
    [] OTHER -> "0"

\* gh: new Error(r.status + ': ' + t)
Message(err) == <<StatusText(err.code), ":">> \o err.text

\* gh: every request carries the token; the host answers 401 to one it rejects
Denied(tok) == tok \notin valid

\* a getFile that takes every answer of the host for a document
ReadErrorUnseen(path, tok) ==
  IF path = IndexPath THEN NoError
  ELSE IF path[2] \in DOMAIN HeadTree.posts THEN NoError
  ELSE NotFound

\* getFile: the error a read of path ends with, NoError when it succeeds
ReadError(path, tok) ==
  IF Denied(tok) THEN AuthError
  ELSE IF path = IndexPath THEN NoError
  ELSE IF path[2] \in DOMAIN HeadTree.posts THEN NoError
  ELSE NotFound

\* a callback that takes no message for a refusal
MentionsAuthNever(err) == FALSE

\* err.message.indexOf('401') > -1 || err.message.indexOf('403') > -1
MentionsAuth(err) == \E i \in 1..Len(Message(err)) : Message(err)[i] \in {"401", "403"}

Read(path, dispatched) == [path |-> path, dispatched |-> dispatched]

\* ------------------------------------------------------------ settlement

Settled(err) ==
  [kind |-> wf.kind, ok |-> (err = NoError), slug |-> wf.slug, error |-> err,
   commit |-> mc.commit, files |-> wf.files, reads |-> wf.reads,
   commitSha |-> mc.commitSha, headAt |-> head',
   reused |-> (done.reused \/ (wf.reused /\ err = NoError))]

\* a rejection callback that calls onSave again
SettleSaveAgain(err) ==
  /\ mc' = NoCommit
  /\ token' = token
  /\ ed' = ed
  /\ IF err = NoError
     THEN /\ wf' = NoWorkflow
          /\ pc' = IF wf.cmd = "wq" THEN "idle" ELSE "editor"
          /\ status' = [text |-> "committed", error |-> NoError]
     ELSE /\ wf' = wf
          /\ pc' = IF wf.kind = "new" THEN "newReadIndex" ELSE "ref"
          /\ status' = [text |-> "saving", error |-> NoError]

\* the two callbacks execCmd gives onSave(result).then
SettleSave(err) ==
  /\ wf' = NoWorkflow
  /\ mc' = NoCommit
  /\ IF err = NoError
     THEN /\ token' = token
          /\ IF wf.cmd = "wq"
             THEN pc' = "idle" /\ ed' = NoEditor
                  /\ status' = [text |-> "", error |-> NoError]
             ELSE pc' = "editor" /\ ed' = ed
                  /\ status' = [text |-> "committed", error |-> NoError]
     ELSE /\ pc' = "editor"
          /\ ed' = ed
          /\ IF MentionsAuth(err)
             THEN token' = NoToken /\ status' = [text |-> "bad token", error |-> err]
             ELSE token' = token /\ status' = [text |-> "error", error |-> err]

\* the two callbacks showDeleteConfirm gives onConfirm().then
SettleDelete(err) ==
  /\ wf' = NoWorkflow
  /\ mc' = NoCommit
  /\ token' = token
  /\ ed' = ed
  /\ IF err = NoError
     THEN pc' = "deleted" /\ status' = [text |-> "done", error |-> NoError]
     ELSE pc' = "deleteFailed" /\ status' = [text |-> "error", error |-> err]

Settle(err) ==
  /\ done' = Settled(err)
  /\ IF wf.kind = "delete" THEN SettleDelete(err) ELSE SettleSave(err)

\* a chain that goes on to multiCommit at the first neighbour read
ContinueAtFirst(next) ==
  /\ pc' = IF next = "deleteReadAdjacent" THEN "ref" ELSE next
  /\ UNCHANGED <<token, ed, status, done>>

\* a step of a promise chain that goes on to the request next
Continue(next) ==
  /\ pc' = next
  /\ UNCHANGED <<token, ed, status, done>>

\* ------------------------------------------------------------ multiCommit

\* step 1: GET git/ref/heads/main
CommitReadRef ==
  /\ pc = "ref"
  /\ UNCHANGED <<storeVars, valid, others, now, ops, pureVars>>
  /\ \/ /\ Denied(wf.token)
        /\ Settle(AuthError)
     \/ /\ ~Denied(wf.token)
        /\ mc' = [mc EXCEPT !.commitSha = head]
        /\ wf' = wf
        /\ Continue("commit")

\* step 2: GET git/commits/{commitSha}
CommitReadCommit ==
  /\ pc = "commit"
  /\ UNCHANGED <<storeVars, valid, others, now, ops, pureVars>>
  /\ \/ /\ Denied(wf.token)
        /\ Settle(AuthError)
     \/ /\ ~Denied(wf.token)
        /\ mc' = [mc EXCEPT !.base = commits[mc.commitSha].tree]
        /\ wf' = wf
        /\ Continue("tree")

\* step 3: POST git/trees {base_tree, tree}
CommitPostTree ==
  /\ pc = "tree"
  /\ UNCHANGED <<storeVars, valid, others, now, ops, pureVars>>
  /\ \/ /\ Denied(wf.token)
        /\ Settle(AuthError)
     \/ /\ ~Denied(wf.token)
        /\ \E t \in NewTrees(mc.base, wf.files) : mc' = [mc EXCEPT !.tree = t]
        /\ wf' = wf
        /\ Continue("newCommit")

\* step 4: POST git/commits {message, tree, parents: [commitSha]}
CommitPostCommit ==
  /\ pc = "newCommit"
  /\ UNCHANGED <<head, valid, others, now, ops, pureVars>>
  /\ \/ /\ Denied(wf.token)
        /\ commits' = commits
        /\ Settle(AuthError)
     \/ /\ ~Denied(wf.token)
        /\ commits' = Append(commits, [parent |-> mc.commitSha, tree |-> mc.tree])
        /\ mc' = [mc EXCEPT !.commit = Len(commits) + 1]
        /\ wf' = wf
        /\ Continue("patch")

\* step 5: PATCH git/refs/heads/main {sha}
CommitPatchRef ==
  /\ pc = "patch"
  /\ UNCHANGED <<commits, valid, others, now, ops, pureVars>>
  /\ \/ /\ Denied(wf.token)
        /\ head' = head
        /\ Settle(AuthError)
     \/ /\ ~Denied(wf.token)
        /\ ~FastForward(commits, head, mc.commit)
        /\ head' = head
        /\ Settle(Conflict)
     \/ /\ ~Denied(wf.token)
        /\ FastForward(commits, head, mc.commit)
        /\ head' = mc.commit
        /\ Settle(NoError)

\* ------------------------------------------------------------- workflows

\* window.__editor.newEntry with a stored token: newEntry shows the editor
NewEntry ==
  /\ pc = "idle"
  /\ ops < MaxOps
  /\ token # NoToken
  /\ pc' = "editor"
  /\ ed' = [NoEditor EXCEPT !.mode = "new", !.typeVal = "spoken", !.token = token]
  /\ status' = [text |-> "", error |-> NoError]
  /\ UNCHANGED <<storeVars, valid, others, now, token, wf, mc, ops, done, pureVars>>

\* window.__editor.newEntry, editEntry and deleteEntry with no stored token:
\* requireAuth puts up the token prompt
RequireAuth(entry, slug) ==
  /\ pc = "idle"
  /\ ops < MaxOps
  /\ token = NoToken
  /\ pc' = "prompt"
  /\ wf' = [NoWorkflow EXCEPT !.entry = entry, !.slug = slug]
  /\ UNCHANGED <<storeVars, valid, others, now, token, ed, mc, status, ops, done, pureVars>>

\* what the user has typed into the prompt, trimmed, when a key comes
TypedTokens == Tokens \cup {""}

\* Enter in the prompt: with nothing typed the key does nothing; otherwise the
\* value is stored and the entry point goes on with it
PromptEnter(value) ==
  /\ pc = "prompt"
  /\ UNCHANGED <<storeVars, valid, others, now, mc, ops, done, pureVars>>
  /\ IF value = ""
     THEN UNCHANGED <<token, pc, ed, wf, status>>
     ELSE /\ token' = value
          /\ IF wf.entry = "newEntry"
             THEN /\ pc' = "editor"
                  /\ ed' = [NoEditor EXCEPT !.mode = "new", !.typeVal = "spoken",
                                            !.token = value]
                  /\ wf' = NoWorkflow
                  /\ status' = [text |-> "", error |-> NoError]
             ELSE IF wf.entry = "editEntry"
             THEN /\ pc' = "editReadPost"
                  /\ wf' = [NoWorkflow EXCEPT !.slug = wf.slug, !.token = value]
                  /\ UNCHANGED <<ed, status>>
             ELSE /\ pc' = "confirm"
                  /\ wf' = [NoWorkflow EXCEPT !.slug = wf.slug, !.token = value]
                  /\ status' = [text |-> "confirm", error |-> NoError]
                  /\ ed' = ed

\* Escape in the prompt: the overlay goes, the promise rejects with
\* 'cancelled' and the entry point's catch swallows it
PromptEscape ==
  /\ pc = "prompt"
  /\ pc' = "idle"
  /\ wf' = NoWorkflow
  /\ UNCHANGED <<storeVars, valid, others, now, token, ed, mc, status, ops, done, pureVars>>

\* window.__editor.editEntry with a stored token: editEntry asks for the post
EditEntry(slug) ==
  /\ pc = "idle"
  /\ ops < MaxOps
  /\ token # NoToken
  /\ pc' = "editReadPost"
  /\ wf' = [NoWorkflow EXCEPT !.slug = slug, !.token = token]
  /\ UNCHANGED <<storeVars, valid, others, now, token, ed, mc, status, ops, done, pureVars>>

\* editEntry, the answer to getFile('posts/' + slug + '.html'); a rejection
\* has no handler
EditReadPost ==
  /\ pc = "editReadPost"
  /\ UNCHANGED <<storeVars, valid, others, now, token, ed, mc, status, ops, done, pureVars>>
  /\ \/ /\ ReadError(PostPath(wf.slug), wf.token) # NoError
        /\ pc' = "idle"
        /\ wf' = NoWorkflow
     \/ /\ ReadError(PostPath(wf.slug), wf.token) = NoError
        /\ pc' = "editReadIndex"
        /\ wf' = [wf EXCEPT !.post = parsePost(HeadTree.posts[wf.slug]),
                            !.reads = @ \cup {Read(PostPath(wf.slug), FALSE)}]

\* editEntry, the answer to getFile('index.html'): the editor opens on the
\* parsed post, and its onSave keeps post and idx
EditReadIndex ==
  /\ pc = "editReadIndex"
  /\ UNCHANGED <<storeVars, valid, others, now, token, mc, ops, done, pureVars>>
  /\ wf' = NoWorkflow
  /\ \/ /\ ReadError(IndexPath, wf.token) # NoError
        /\ pc' = "idle"
        /\ UNCHANGED <<ed, status>>
     \/ /\ ReadError(IndexPath, wf.token) = NoError
        /\ pc' = "editor"
        /\ ed' = [mode |-> "edit", slug |-> wf.slug, post |-> wf.post,
                  idx |-> HeadTree.index,
                  desc |-> getDescFromIndex(HeadTree.index, wf.slug),
                  typeVal |-> wf.post.type, token |-> wf.token,
                  held |-> wf.reads \cup {Read(IndexPath, FALSE)}]
        /\ status' = [text |-> "", error |-> NoError]

\* execCmd('t'), and a click on the type shown
ToggleType ==
  /\ pc = "editor"
  /\ ed' = [ed EXCEPT !.typeVal = IF @ = "spoken" THEN "written" ELSE "spoken"]
  /\ status' = [text |-> "type", error |-> NoError]
  /\ UNCHANGED <<storeVars, valid, others, now, token, pc, wf, mc, ops, done, pureVars>>

\* execCmd('q') and execCmd('q!')
Quit ==
  /\ pc = "editor"
  /\ pc' = "idle"
  /\ ed' = NoEditor
  /\ UNCHANGED <<storeVars, valid, others, now, token, wf, mc, status, ops, done, pureVars>>

\* the slug execCmd saves under
SaveSlug(slugField, content) ==
  IF ed.mode = "new"
  THEN slugify(IF Trim(slugField) # <<>> THEN Trim(slugField) ELSE Slice(content, TitleMax))
  ELSE ed.slug

\* the result execCmd hands to onSave
SaveResult(slugField, content, desc, tags) ==
  [slug    |-> SaveSlug(slugField, content),
   type    |-> ed.typeVal,
   content |-> content,
   desc    |-> IF Trim(desc) # <<>> THEN Trim(desc) ELSE SaveSlug(slugField, content),
   tags    |-> tags]

\* the changeset editEntry's onSave builds from the post and index it kept
EditFiles(r) ==
  <<WritePost(ed.slug,
              generatePost([slug |-> ed.slug, date |-> ed.post.date, type |-> r.type,
                            content |-> r.content, tags |-> r.tags,
                            prevSlug |-> ed.post.prevSlug, nextSlug |-> ed.post.nextSlug])),
    WriteIndex(addToIndex(removeFromIndex(ed.idx, ed.slug), ed.post.date, r.type,
                          ed.slug, r.desc))>>

\* execCmd('w') and execCmd('wq'): validation, then onSave.  In a new-post
\* editor onSave asks for the index; in an edit it goes straight to multiCommit.
Save(cmd, slugField, content, desc, tags) ==
  /\ pc = "editor"
  /\ ops < MaxOps
  /\ UNCHANGED <<storeVars, valid, others, now, token, ed, mc, done, pureVars>>
  /\ LET r == SaveResult(slugField, content, desc, tags)
     IN  \/ /\ r.slug = <<>>
            /\ status' = [text |-> "need a slug", error |-> NoError]
            /\ UNCHANGED <<pc, wf, ops>>
         \/ /\ r.slug # <<>>
            /\ Trim(content) = <<>>
            /\ status' = [text |-> "no content", error |-> NoError]
            /\ UNCHANGED <<pc, wf, ops>>
         \/ /\ r.slug # <<>>
            /\ Trim(content) # <<>>
            /\ status' = [text |-> "saving", error |-> NoError]
            /\ ops' = ops + 1
            /\ IF ed.mode = "new"
               THEN /\ pc' = "newReadIndex"
                    /\ wf' = [NoWorkflow EXCEPT !.kind = "new", !.cmd = cmd, !.slug = r.slug,
                                                !.token = ed.token, !.r = r,
                                                !.again = (/\ status.text = "committed"
                                                           /\ done.slug = r.slug)]
               ELSE /\ pc' = "ref"
                    /\ wf' = [NoWorkflow EXCEPT !.kind = "edit", !.cmd = cmd, !.slug = r.slug,
                                                !.token = ed.token, !.r = r,
                                                !.files = EditFiles(r), !.reads = ed.held]

\* newEntry's onSave, the answer to getFile('index.html')
NewReadIndex ==
  /\ pc = "newReadIndex"
  /\ UNCHANGED <<storeVars, valid, others, now, ops, pureVars>>
  /\ \/ /\ ReadError(IndexPath, wf.token) # NoError
        /\ Settle(ReadError(IndexPath, wf.token))
     \/ /\ ReadError(IndexPath, wf.token) = NoError
        /\ LET idx      == HeadTree.index
               newest   == getNewestSlug(idx)
               date     == today
               postHtml == generatePost([slug |-> wf.r.slug, date |-> date,
                                         type |-> wf.r.type, content |-> wf.r.content,
                                         tags |-> wf.r.tags, prevSlug |-> Null,
                                         nextSlug |-> newest])
               newIndex == addToIndex(idx, date, wf.r.type, wf.r.slug, wf.r.desc)
           IN  /\ wf' = [wf EXCEPT !.files = <<WritePost(wf.r.slug, postHtml),
                                               WriteIndex(newIndex)>>,
                                   !.post = [NoPost EXCEPT !.slug = newest],
                                   !.reads = @ \cup {Read(IndexPath, TRUE)},
                                   !.reused = (wf.r.slug \in DOMAIN HeadTree.posts)]
               /\ mc' = mc
               /\ Continue(IF newest # Null THEN "newReadNewest" ELSE "ref")

\* newEntry's onSave, the answer to getFile('posts/' + newest + '.html')
NewReadNewest ==
  /\ pc = "newReadNewest"
  /\ UNCHANGED <<storeVars, valid, others, now, ops, pureVars>>
  /\ LET newest == wf.post.slug
     IN  \/ /\ ReadError(PostPath(newest), wf.token) # NoError
            /\ Settle(ReadError(PostPath(newest), wf.token))
         \/ /\ ReadError(PostPath(newest), wf.token) = NoError
            /\ LET f      == HeadTree.posts[newest]
                   parsed == parsePost(f)
               IN  wf' = [wf EXCEPT
                            !.files = Append(@, WritePost(newest,
                                        updatePostNav(f, wf.r.slug, parsed.nextSlug))),
                            !.reads = @ \cup {Read(PostPath(newest), TRUE)}]
            /\ mc' = mc
            /\ Continue("ref")

\* window.__editor.deleteEntry with a stored token: the confirmation dialog
DeleteEntry(slug) ==
  /\ pc = "idle"
  /\ ops < MaxOps
  /\ token # NoToken
  /\ pc' = "confirm"
  /\ wf' = [NoWorkflow EXCEPT !.slug = slug, !.token = token]
  /\ status' = [text |-> "confirm", error |-> NoError]
  /\ UNCHANGED <<storeVars, valid, others, now, token, ed, mc, ops, done, pureVars>>

\* a dialog that takes its first d for the last
ConfirmedAtOnce(stage) == stage >= 1

\* stage >= 3 in showDeleteConfirm's handler
Confirmed(stage) == stage >= 3

\* showDeleteConfirm's handler on the key d: the third d calls onConfirm,
\* which asks for the post
ConfirmKeyD ==
  /\ pc = "confirm"
  /\ UNCHANGED <<storeVars, valid, others, now, token, ed, mc, done, pureVars>>
  /\ \/ /\ ~Confirmed(wf.stage + 1)
        /\ wf' = [wf EXCEPT !.stage = @ + 1]
        /\ UNCHANGED <<pc, status, ops>>
     \/ /\ Confirmed(wf.stage + 1)
        /\ ops < MaxOps
        /\ wf' = [wf EXCEPT !.stage = @ + 1, !.kind = "delete"]
        /\ pc' = "deleteReadPost"
        /\ status' = [text |-> "removing", error |-> NoError]
        /\ ops' = ops + 1

\* showDeleteConfirm's handler on any other key
ConfirmOtherKey ==
  /\ pc = "confirm"
  /\ pc' = "idle"
  /\ wf' = NoWorkflow
  /\ status' = [text |-> "", error |-> NoError]
  /\ UNCHANGED <<storeVars, valid, others, now, token, ed, mc, ops, done, pureVars>>

\* deleteEntry, the answer to getFile('posts/' + slug + '.html')
DeleteReadPost ==
  /\ pc = "deleteReadPost"
  /\ UNCHANGED <<storeVars, valid, others, now, ops, pureVars>>
  /\ \/ /\ ReadError(PostPath(wf.slug), wf.token) # NoError
        /\ Settle(ReadError(PostPath(wf.slug), wf.token))
     \/ /\ ReadError(PostPath(wf.slug), wf.token) = NoError
        /\ wf' = [wf EXCEPT !.post = parsePost(HeadTree.posts[wf.slug]),
                            !.reads = @ \cup {Read(PostPath(wf.slug), TRUE)}]
        /\ mc' = mc
        /\ Continue("deleteReadIndex")

\* deleteEntry, the answer to getFile('index.html'): the reads of the two
\* neighbours are issued together
DeleteReadIndex ==
  /\ pc = "deleteReadIndex"
  /\ UNCHANGED <<storeVars, valid, others, now, ops, pureVars>>
  /\ \/ /\ ReadError(IndexPath, wf.token) # NoError
        /\ Settle(ReadError(IndexPath, wf.token))
     \/ /\ ReadError(IndexPath, wf.token) = NoError
        /\ LET adj == (IF wf.post.prevSlug # Null THEN {"prev"} ELSE {})
                      \cup (IF wf.post.nextSlug # Null THEN {"next"} ELSE {})
           IN  /\ wf' = [wf EXCEPT
                           !.files = <<DeletePost(wf.slug),
                                       WriteIndex(removeFromIndex(HeadTree.index, wf.slug))>>,
                           !.adj = adj,
                           !.reads = @ \cup {Read(IndexPath, TRUE)}]
               /\ mc' = mc
               /\ Continue(IF adj = {} THEN "ref" ELSE "deleteReadAdjacent")

\* deleteEntry, the answer to the read of one neighbour, whichever comes
\* first; Promise.all goes on to multiCommit after the last
DeleteReadAdjacent(which) ==
  /\ pc = "deleteReadAdjacent"
  /\ which \in wf.adj
  /\ UNCHANGED <<storeVars, valid, others, now, ops, pureVars>>
  /\ LET slug == IF which = "prev" THEN wf.post.prevSlug ELSE wf.post.nextSlug
     IN  \/ /\ ReadError(PostPath(slug), wf.token) # NoError
            /\ Settle(ReadError(PostPath(slug), wf.token))
         \/ /\ ReadError(PostPath(slug), wf.token) = NoError
            /\ LET f == HeadTree.posts[slug]
                   patched == IF which = "prev"
                              THEN updatePostNav(f, parsePost(f).prevSlug, wf.post.nextSlug)
                              ELSE updatePostNav(f, wf.post.prevSlug, parsePost(f).nextSlug)
               IN  wf' = [wf EXCEPT !.files = Append(@, WritePost(slug, patched)),
                                    !.adj = @ \ {which},
                                    !.reads = @ \cup {Read(PostPath(slug), TRUE)}]
            /\ mc' = mc
            /\ Continue(IF wf.adj = {which} THEN "ref" ELSE "deleteReadAdjacent")

\* the timer set after a successful delete removes the dialog
DeleteDialogTimeout ==
  /\ pc = "deleted"
  /\ pc' = "idle"
  /\ status' = [text |-> "", error |-> NoError]
  /\ UNCHANGED <<storeVars, valid, others, now, token, ed, wf, mc, ops, done, pureVars>>

\* ------------------------------------------------------------ environment

\* a request of the client is in flight.  What the host goes through while
\* none is shows to the client only at its next request, so the environment
\* is let act only between the dispatch of a workflow and its settlement.
InFlight == pc \notin {"idle", "prompt", "editor", "confirm", "deleted", "deleteFailed"}

\* another writer pushes a commit on top of the branch head
OtherWriter ==
  /\ InFlight
  /\ others < MaxOther
  /\ others' = others + 1
  /\ commits' = Append(commits, [parent |-> head,
                                 tree |-> [HeadTree EXCEPT !.misc = @ + 1]])
  /\ head' = Len(commits) + 1
  /\ UNCHANGED <<valid, now, token, pc, ed, wf, mc, status, ops, done, pureVars>>

\* the host stops accepting a token
Revoke(t) ==
  /\ InFlight
  /\ t \in valid
  /\ valid' = valid \ {t}
  /\ UNCHANGED <<storeVars, others, now, token, pc, ed, wf, mc, status, ops, done, pureVars>>

Next ==
  \/ NewEntry
  \/ RequireAuth("newEntry", <<>>)
  \/ \E entry \in {"editEntry", "deleteEntry"} : \E slug \in PageSlugs : RequireAuth(entry, slug)
  \/ \E value \in TypedTokens : PromptEnter(value)
  \/ PromptEscape
  \/ \E slug \in PageSlugs : EditEntry(slug)
  \/ EditReadPost
  \/ EditReadIndex
  \/ ToggleType
  \/ Quit
  \/ \E cmd \in {"w", "wq"} : \E slugField \in SlugInputs :
       \E content \in ContentInputs \cup {ed.post.content} :
         \E desc \in DescInputs \cup {ed.desc} : \E tags \in TagInputs \cup {ed.post.tags} :
           Save(cmd, slugField, content, desc, tags)
  \/ NewReadIndex
  \/ NewReadNewest
  \/ \E slug \in PageSlugs : DeleteEntry(slug)
  \/ ConfirmKeyD
  \/ ConfirmOtherKey
  \/ DeleteReadPost
  \/ DeleteReadIndex
  \/ \E which \in {"prev", "next"} : DeleteReadAdjacent(which)
  \/ DeleteDialogTimeout
  \/ CommitReadRef
  \/ CommitReadCommit
  \/ CommitPostTree
  \/ CommitPostCommit
  \/ CommitPatchRef
  \/ OtherWriter
  \/ \E t \in Tokens : Revoke(t)

Spec == Init /\ [][Next]_vars

\* ------------------------------------------------- one workflow at a time

MaxSingle == 1

\* the steps of Next in a run that dispatches no more than MaxSingle workflows
NextSingle == Next /\ ops' <= MaxSingle

SpecSingle == Init /\ [][NextSingle]_vars

\* the steps of a delete, from d on the page to the end of its dialog
DeleteSteps ==
  \/ \E slug \in PageSlugs : DeleteEntry(slug)
  \/ ConfirmKeyD
  \/ ConfirmOtherKey
  \/ DeleteReadPost
  \/ DeleteReadIndex
  \/ \E which \in {"prev", "next"} : DeleteReadAdjacent(which)
  \/ DeleteDialogTimeout
  \/ CommitReadRef
  \/ CommitReadCommit
  \/ CommitPostTree
  \/ CommitPostCommit
  \/ CommitPatchRef
  \/ OtherWriter
  \/ \E t \in Tokens : Revoke(t)

NextDelete == DeleteSteps /\ ops' <= MaxSingle

\* one delete in which the timer set with setTimeout fires
SpecDelete == Init /\ [][NextDelete]_vars /\ WF_vars(DeleteDialogTimeout)

\* ------------------------------------- an editor left open beside a writer

\* the tree after newEntry's onSave has committed a post on tree t
CreateOn(t, slug, date, type) ==
  LET newest == getNewestSlug(t.index)
      doc    == generatePost([slug |-> slug, date |-> date, type |-> type,
                              content |-> <<"c">>, tags |-> <<>>,
                              prevSlug |-> Null, nextSlug |-> newest])
      index  == addToIndex(t.index, date, type, slug, slug)
      patch  == IF newest = Null THEN <<>>
                ELSE <<WritePost(newest, updatePostNav(t.posts[newest], slug,
                                                      parsePost(t.posts[newest]).nextSlug))>>
  IN  Overlay(t, <<WritePost(slug, doc), WriteIndex(index)>> \o patch)

\* another client runs newEntry to its commit while this client's edit
\* session stands open, or while a create of this client is between its
\* reads and the end of its commit
OtherCreate ==
  /\ \/ pc = "editor" /\ ed.mode = "edit"
     \/ InFlight /\ wf.kind = "new"
  /\ others < MaxOther
  /\ <<"x">> \notin DOMAIN HeadTree.posts
  /\ others' = others + 1
  /\ commits' = Append(commits, [parent |-> head,
                                 tree |-> CreateOn(HeadTree, <<"x">>, today, "written")])
  /\ head' = Len(commits) + 1
  /\ UNCHANGED <<valid, now, token, pc, ed, wf, mc, status, ops, done, pureVars>>

NextSession == NextSingle \/ OtherCreate

SpecSession == Init /\ [][NextSession]_vars

\* ------------------------------------- a repository with a damaged document

\* a post document from which the nav.post-nav block is missing
WithoutNav(doc) == [doc EXCEPT !.hasNav = FALSE, !.navLead = 0, !.nav = <<>>]

\* a stored collection one of whose documents lost its nav block to an edit
\* made outside the editor
InitDamaged ==
  /\ \E c \in InitialCollections : \E s \in DOMAIN BuildTree(c.posts).posts :
       /\ commits = <<[parent |-> 0,
                       tree |-> [BuildTree(c.posts) EXCEPT !.posts[s] = WithoutNav(@)]]>>
       /\ now = c.now
  /\ head = 1
  /\ valid = Tokens
  /\ others = 0
  /\ token = "t1"
  /\ pc = "idle"
  /\ ed = NoEditor
  /\ wf = NoWorkflow
  /\ mc = NoCommit
  /\ status = [text |-> "", error |-> NoError]
  /\ ops = 0
  /\ done = NoDone
  /\ codec = CodecIdle
  /\ slugRun = SlugIdle
  /\ indexRun = IndexIdle
  /\ kb = KbIdle
  /\ tle = TleIdle

SpecDamaged == InitDamaged /\ [][NextSingle]_vars

\* ------------------------------------------------ the editor key by key

MaxBuf == 2

MaxSaves == 2

MaxTyped == 1

\* the keys with e.key.length === 1 that reach the overlay in command mode
CmdKeys == {"w", "q", "t", "!", " ", "W"}

\* cmd.trim().toLowerCase()
CmdText(buf) == [i \in 1..Len(Trim(buf)) |-> IF Trim(buf)[i] = "W" THEN "w" ELSE Trim(buf)[i]]

SaveCmds == {<<"w">>, <<"w", "q">>}

QuitCmds == {<<"q">>, <<"q", "!">>}

\* the editors showEditor opens: a new post with its fields as typed so far,
\* or an edit of post a
OpenEditors ==
  {[KbIdle EXCEPT !.open = TRUE, !.mode = "new", !.typeVal = "spoken", !.focus = "ta",
                  !.fields = [NoFields EXCEPT !.slug = f[1], !.content = f[2]]] :
     f \in {<<<<>>, <<>>>>, <<<<>>, <<"!">>>>, <<<<"a">>, <<>>>>, <<<<"a">>, <<" ">>>>}}
  \cup
  {[KbIdle EXCEPT !.open = TRUE, !.mode = "edit", !.slug = <<"a">>, !.typeVal = t,
                  !.focus = "ta",
                  !.fields = [NoFields EXCEPT !.content = <<"c">>, !.desc = <<"a">>]] :
     t \in {"spoken", "written"}}

\* every command dispatched closes the editor
execCmdCloses(k, buf) == [k EXCEPT !.open = FALSE]

\* a w or wq handed to onSave whatever the fields hold
execCmdUnchecked(k, buf) ==
  IF CmdText(buf) \in SaveCmds
  THEN [k EXCEPT !.status = "saving", !.pending = Append(@, CmdText(buf)), !.saves = @ + 1]
  ELSE IF CmdText(buf) \in QuitCmds THEN [k EXCEPT !.open = FALSE]
  ELSE [k EXCEPT !.status = "unknown"]

\* execCmd, on the editor k with the buffer buf
execCmd(k, buf) ==
  LET cmd  == CmdText(buf)
      slug == IF k.mode = "new"
              THEN slugify(IF Trim(k.fields.slug) # <<>> THEN Trim(k.fields.slug)
                           ELSE Slice(k.fields.content, TitleMax))
              ELSE k.slug
  IN  IF cmd \in SaveCmds
      THEN IF slug = <<>> THEN [k EXCEPT !.status = "need a slug"]
           ELSE IF Trim(k.fields.content) = <<>> THEN [k EXCEPT !.status = "no content"]
           ELSE [k EXCEPT !.status = "saving", !.pending = Append(@, cmd), !.saves = @ + 1]
      ELSE IF cmd \in QuitCmds THEN [k EXCEPT !.open = FALSE]
      ELSE IF cmd = <<"t">>
      THEN [k EXCEPT !.typeVal = IF @ = "spoken" THEN "written" ELSE "spoken",
                     !.status = "type", !.cmdMode = FALSE, !.focus = "ta"]
      ELSE [k EXCEPT !.status = "unknown"]

\* the keydown handler leaving the editor as execCmd left it
AfterEnterStays(k) == k

\* a keydown handler that gives up the saves of an editor execCmd has closed
AfterEnterCancels(k) ==
  [k EXCEPT !.cmdMode = FALSE, !.cmdBuf = <<>>, !.pending = IF k.open THEN @ ELSE <<>>]

\* the keydown handler after execCmd: cmdMode = false; cmdBuf = ''
AfterEnter(k) == [k EXCEPT !.cmdMode = FALSE, !.cmdBuf = <<>>]

InitKeys ==
  /\ InitClient([posts |-> <<>>, now |-> 1])
  /\ codec = CodecIdle
  /\ slugRun = SlugIdle
  /\ indexRun = IndexIdle
  /\ kb \in OpenEditors
  /\ tle = TleIdle

\* keydown Enter in command mode
KeyEnter ==
  /\ kb.open
  /\ kb.cmdMode
  /\ kb.saves < MaxSaves \/ CmdText(kb.cmdBuf) \notin SaveCmds
  /\ kb' = [AfterEnter(execCmd(kb, kb.cmdBuf)) EXCEPT !.key = "Enter"]
  /\ UNCHANGED <<clientVars, codec, slugRun, indexRun, tle>>

\* keydown Escape, in either mode
KeyEscape ==
  /\ kb.open
  /\ kb' = IF kb.cmdMode
           THEN [kb EXCEPT !.cmdMode = FALSE, !.cmdBuf = <<>>, !.status = "esc",
                           !.focus = "ta", !.key = "Escape"]
           ELSE [kb EXCEPT !.cmdMode = TRUE, !.cmdBuf = <<>>, !.status = ":",
                           !.focus = "ov", !.key = "Escape"]
  /\ UNCHANGED <<clientVars, codec, slugRun, indexRun, tle>>

\* keydown Backspace in command mode
KeyBackspace ==
  /\ kb.open
  /\ kb.cmdMode
  /\ LET rest == SubSeq(kb.cmdBuf, 1, Len(kb.cmdBuf) - 1)
     IN  kb' = IF rest = <<>>
               THEN [kb EXCEPT !.cmdBuf = rest, !.cmdMode = FALSE, !.status = "esc",
                               !.focus = "ta", !.key = "Backspace"]
               ELSE [kb EXCEPT !.cmdBuf = rest, !.status = ":", !.key = "Backspace"]
  /\ UNCHANGED <<clientVars, codec, slugRun, indexRun, tle>>

\* keydown of a one-character key in command mode
KeyChar(c) ==
  /\ kb.open
  /\ kb.cmdMode
  /\ Len(kb.cmdBuf) < MaxBuf
  /\ kb' = [kb EXCEPT !.cmdBuf = Append(@, c), !.status = ":", !.key = "Char"]
  /\ UNCHANGED <<clientVars, codec, slugRun, indexRun, tle>>

\* a character typed into the content field, and the description filled from it
TypeContent(c) ==
  /\ kb.open
  /\ ~kb.cmdMode
  /\ kb.focus = "ta"
  /\ Len(kb.fields.content) < MaxTyped
  /\ kb' = [kb EXCEPT !.fields.content = Append(@, c),
                      !.fields.desc = IF kb.manual THEN @
                                      ELSE Trim(Append(kb.fields.content, c)),
                      !.key = "Type"]
  /\ UNCHANGED <<clientVars, codec, slugRun, indexRun, tle>>

\* a click on the type label
ClickType ==
  /\ kb.open
  /\ kb' = [kb EXCEPT !.typeVal = IF @ = "spoken" THEN "written" ELSE "spoken",
                      !.key = "Click"]
  /\ UNCHANGED <<clientVars, codec, slugRun, indexRun, tle>>

\* the callbacks of onSave(result).then close over the command they settle
SettleKey(cmd) == IF cmd = <<"w", "q">> THEN "Settle wq" ELSE "Settle w"

\* a settlement that removes the overlay whatever the command and the outcome
SaveSettlesCloses(i, ok) ==
  /\ i \in 1..Len(kb.pending)
  /\ kb' = [kb EXCEPT !.pending = SubSeq(@, 1, i - 1) \o SubSeq(@, i + 1, Len(@)),
                      !.open = FALSE, !.key = SettleKey(kb.pending[i])]
  /\ UNCHANGED <<clientVars, codec, slugRun, indexRun, tle>>

\* the promise of the i-th save in flight settles
SaveSettles(i, ok) ==
  /\ i \in 1..Len(kb.pending)
  /\ LET rest == SubSeq(kb.pending, 1, i - 1) \o SubSeq(kb.pending, i + 1, Len(kb.pending))
         left == [kb EXCEPT !.pending = rest, !.key = SettleKey(kb.pending[i])]
     IN  kb' = IF ~ok THEN [left EXCEPT !.status = "error"]
               ELSE IF kb.pending[i] = <<"w", "q">> THEN [left EXCEPT !.open = FALSE]
               ELSE [left EXCEPT !.status = "committed"]
  /\ UNCHANGED <<clientVars, codec, slugRun, indexRun, tle>>

NextKeys ==
  \/ KeyEnter
  \/ KeyEscape
  \/ KeyBackspace
  \/ \E c \in CmdKeys : KeyChar(c)
  \/ TypeContent("c")
  \/ ClickType
  \/ \E i \in 1..MaxSaves : \E ok \in BOOLEAN : SaveSettles(i, ok)

SpecKeys == InitKeys /\ [][NextKeys]_vars

\* ------------------------------------------------- the codec on its own

\* every text of at most n characters of the alphabet
RECURSIVE Texts(_, _)
Texts(alphabet, n) ==
  IF n = 0 THEN {<<>>}
  ELSE LET shorter == Texts(alphabet, n - 1)
       IN  shorter \cup {Append(t, c) : t \in {u \in shorter : Len(u) = n - 1}, c \in alphabet}

CodecAlphabet == {"c", " ", "\n", "&"}

CodecLinks == {<<Null, Null>>, <<Null, <<"b">>>>, <<<<"a">>, <<"b">>>>}

CodecPosts ==
  { [slug |-> <<"x">>, date |-> Dates[1], type |-> type, content |-> content,
     tags |-> tags, prevSlug |-> links[1], nextSlug |-> links[2]] :
      type \in {"spoken", "written"}, content \in Texts(CodecAlphabet, MaxContentLen),
      tags \in {<<>>, << <<"t", "&">> >>}, links \in CodecLinks }

InitCodec ==
  /\ InitClient([posts |-> <<>>, now |-> 1])
  /\ codec \in {[CodecIdle EXCEPT !.stage = "post", !.post = p] : p \in CodecPosts}
  /\ slugRun = SlugIdle
  /\ indexRun = IndexIdle
  /\ kb = KbIdle
  /\ tle = TleIdle

Encode ==
  /\ codec.stage = "post"
  /\ codec' = [codec EXCEPT !.stage = "html", !.html = generatePost(codec.post)]
  /\ UNCHANGED <<clientVars, slugRun, indexRun, kb, tle>>

Decode ==
  /\ codec.stage = "html"
  /\ codec' = [codec EXCEPT !.stage = "out", !.out = parsePost(codec.html)]
  /\ UNCHANGED <<clientVars, slugRun, indexRun, kb, tle>>

NextCodec == Encode \/ Decode

SpecCodec == InitCodec /\ [][NextCodec]_vars

\* ------------------------------------------- updatePostNav on its own

MaxPatches == 2

\* the slugs updatePostNav is handed, null among them
NavSlugs == {Null, <<"a">>, <<"b">>}

NavPosts ==
  { [slug |-> <<"x">>, date |-> Dates[1], type |-> type, content |-> <<"c", "&">>,
     tags |-> tags, prevSlug |-> links[1], nextSlug |-> links[2]] :
      type \in {"spoken", "written"}, tags \in {<<>>, << <<"t", "&">> >>},
      links \in CodecLinks }

InitNav ==
  /\ InitClient([posts |-> <<>>, now |-> 1])
  /\ codec \in {[CodecIdle EXCEPT !.stage = "html", !.post = p, !.patched = generatePost(p)] :
                  p \in NavPosts}
  /\ slugRun = SlugIdle
  /\ indexRun = IndexIdle
  /\ kb = KbIdle
  /\ tle = TleIdle

\* updatePostNav applied to the document at hand, and the result decoded
PatchNav(prevSlug, nextSlug) ==
  /\ codec.stage \in {"html", "patched"}
  /\ codec.steps < MaxPatches
  /\ codec' = [codec EXCEPT !.stage = "patched",
                            !.html = codec.patched,
                            !.links = <<prevSlug, nextSlug>>,
                            !.patched = updatePostNav(codec.patched, prevSlug, nextSlug),
                            !.out = parsePost(updatePostNav(codec.patched, prevSlug, nextSlug)),
                            !.steps = @ + 1]
  /\ UNCHANGED <<clientVars, slugRun, indexRun, kb, tle>>

NextNav == \E prevSlug \in NavSlugs : \E nextSlug \in NavSlugs : PatchNav(prevSlug, nextSlug)

SpecNav == InitNav /\ [][NextNav]_vars

\* ------------------------------------------------- slugify on its own

RECURSIVE Repeat(_, _)
Repeat(c, n) == IF n = 0 THEN <<>> ELSE <<c>> \o Repeat(c, n - 1)

SlugAlphabet == {"a", "B", " ", "-"}

\* titles around the length slugify cuts at, and short ones
SlugTitles ==
  { Repeat("a", n) \o tail :
      n \in {0, SlugMax - 2, SlugMax - 1, SlugMax, SlugMax + 1},
      tail \in Texts(SlugAlphabet, MaxTailLen) }

InitSlug ==
  /\ InitClient([posts |-> <<>>, now |-> 1])
  /\ codec = CodecIdle
  /\ slugRun \in {[SlugIdle EXCEPT !.stage = "title", !.input = t] : t \in SlugTitles}
  /\ indexRun = IndexIdle
  /\ kb = KbIdle
  /\ tle = TleIdle

Slugify ==
  /\ slugRun.stage = "title"
  /\ slugRun' = [slugRun EXCEPT !.stage = "slug", !.out = slugify(slugRun.input)]
  /\ UNCHANGED <<clientVars, codec, indexRun, kb, tle>>

NextSlug == Slugify

SpecSlug == InitSlug /\ [][NextSlug]_vars

\* ------------------------------------- properties of the pure functions

\* the paragraphs of a content text: its pieces between runs of two or more newlines
Paragraphs(content) == SplitParas(content)

\* a content text made of one or more paragraphs, none empty and none with
\* white space at either end; a paragraph may hold single newlines
ValidContent(content) ==
  /\ content # <<>>
  /\ \A i \in 1..Len(Paragraphs(content)) :
       /\ Paragraphs(content)[i] # <<>>
       /\ Paragraphs(content)[i] = Trim(Paragraphs(content)[i])

\* C8: for every valid post p, decode(encode(p)) equals p in slug, date, type,
\* content paragraph for paragraph, tags, prevSlug and nextSlug.
C8_RoundTrip ==
  (codec.stage = "out" /\ ValidContent(codec.post.content)) =>
    /\ codec.out.slug = codec.post.slug
    /\ codec.out.date = codec.post.date
    /\ codec.out.type = codec.post.type
    /\ Paragraphs(codec.out.content) = Paragraphs(codec.post.content)
    /\ codec.out.tags = codec.post.tags
    /\ codec.out.prevSlug = codec.post.prevSlug
    /\ codec.out.nextSlug = codec.post.nextSlug

\* C9: for every input, slugify returns a lowercase string over [a-z0-9-]
\* that neither starts nor ends with a hyphen and has at most 50 characters.
C9_SlugShape ==
  slugRun.stage = "slug" =>
    /\ \A i \in 1..Len(slugRun.out) : IsSlugChar(slugRun.out[i]) \/ slugRun.out[i] = "-"
    /\ slugRun.out # <<>> => slugRun.out[1] # "-" /\ slugRun.out[Len(slugRun.out)] # "-"
    /\ Len(slugRun.out) <= SlugMax

\* ------------------------------------------------- the index operations

MaxIndexSteps == 2

\* the indexes a run starts from: those of the initial collections, and the
\* same with a count paragraph that is out of date
IndexInputs ==
  LET built == {BuildTree(c.posts).index : c \in InitialCollections}
  IN  built \cup {[x EXCEPT !.count = <<7, "entries">>] : x \in built}

InitIndex ==
  /\ InitClient([posts |-> <<>>, now |-> 1])
  /\ codec = CodecIdle
  /\ slugRun = SlugIdle
  /\ indexRun \in {[IndexIdle EXCEPT !.stage = "in", !.out = x] : x \in IndexInputs}
  /\ kb = KbIdle
  /\ tle = TleIdle

\* addToIndex applied to the index at hand
InsertRow(date, type, slug, desc) ==
  /\ indexRun.stage # "off"
  /\ indexRun.steps < MaxIndexSteps
  /\ indexRun' = [stage |-> "insert", html |-> indexRun.out, slug |-> slug, date |-> date,
                  out |-> addToIndex(indexRun.out, date, type, slug, desc),
                  steps |-> indexRun.steps + 1]
  /\ UNCHANGED <<clientVars, codec, slugRun, kb, tle>>

\* removeFromIndex applied to the index at hand
RemoveRow(slug) ==
  /\ indexRun.stage # "off"
  /\ indexRun.steps < MaxIndexSteps
  /\ indexRun' = [stage |-> "remove", html |-> indexRun.out, slug |-> slug, date |-> NoDate,
                  out |-> removeFromIndex(indexRun.out, slug),
                  steps |-> indexRun.steps + 1]
  /\ UNCHANGED <<clientVars, codec, slugRun, kb, tle>>

NextIndex ==
  \/ \E d \in 1..Len(Dates) : \E t \in {"spoken", "written"} : \E g \in PageSlugs :
       \E desc \in {g, <<"see", PathText(<<"a">>)>>} : InsertRow(Dates[d], t, g, desc)
  \/ \E g \in PageSlugs : RemoveRow(g)

SpecIndex == InitIndex /\ [][NextIndex]_vars

\* ------------------------------------------------- the commit protocol

\* a document for the changesets below
CommitDoc(slug, content, nextSlug) ==
  generatePost([slug |-> slug, date |-> Dates[1], type |-> "written", content |-> content,
                tags |-> <<>>, prevSlug |-> Null, nextSlug |-> nextSlug])

\* the changesets multiCommit is handed: a create on an empty collection, a
\* create above a, a delete of a, and a create under the slug of the head a
CommitChangesets(t) ==
  LET idx == addToIndex(t.index, Dates[1], "written", <<"x">>, <<"x">>)
  IN  {<<WritePost(<<"x">>, CommitDoc(<<"x">>, <<"x">>, Null)), WriteIndex(idx)>>,
       <<WritePost(<<"x">>, CommitDoc(<<"x">>, <<"x">>, <<"a">>)), WriteIndex(idx),
         WritePost(<<"a">>, CommitDoc(<<"a">>, <<"c">>, Null))>>,
       <<WriteIndex(removeFromIndex(t.index, <<"a">>)), DeletePost(<<"a">>)>>,
       <<WritePost(<<"a">>, CommitDoc(<<"a">>, <<"x">>, <<"a">>)), WriteIndex(idx),
         WritePost(<<"a">>, CommitDoc(<<"a">>, <<"c">>, Null))>>}

\* multiCommit called with a changeset, whatever workflow built it
InitCommit ==
  /\ \E c \in InitialCollections : \E fs \in CommitChangesets(BuildTree(c.posts)) :
       \E k \in {"new", "delete"} :
         /\ head = 1
         /\ commits = <<[parent |-> 0, tree |-> BuildTree(c.posts)]>>
         /\ now = c.now
         /\ wf = [NoWorkflow EXCEPT !.kind = k, !.cmd = "wq", !.slug = <<"x">>,
                                    !.token = "t1", !.files = fs]
         /\ ed = IF k = "new"
                 THEN [NoEditor EXCEPT !.mode = "new", !.typeVal = "written", !.token = "t1"]
                 ELSE NoEditor
  /\ valid = Tokens
  /\ others = 0
  /\ token = "t1"
  /\ pc = "ref"
  /\ mc = NoCommit
  /\ status = [text |-> "", error |-> NoError]
  /\ ops = 1
  /\ done = NoDone
  /\ codec = CodecIdle
  /\ slugRun = SlugIdle
  /\ indexRun = IndexIdle
  /\ kb = KbIdle
  /\ tle = TleIdle

NextCommit ==
  \/ CommitReadRef
  \/ CommitReadCommit
  \/ CommitPostTree
  \/ CommitPostCommit
  \/ CommitPatchRef
  \/ OtherWriter
  \/ \E t \in Tokens : Revoke(t)

SpecCommit == InitCommit /\ [][NextCommit]_vars

\* a request of multiCommit that the host answers with a failure of its own
CommitServerFails(body) ==
  /\ pc \in {"ref", "commit", "tree", "newCommit", "patch"}
  /\ UNCHANGED <<storeVars, valid, others, now, ops, pureVars>>
  /\ Settle(ServerError(body))

NextFail == NextCommit \/ \E body \in HostBodies : CommitServerFails(body)

\* the commit protocol against a host that can fail
SpecFail == InitCommit /\ [][NextFail]_vars

\* ---------------------------------------------- the TLE proxy of the worker

\* what fetch(CELESTRAK_URL) can come back with: it throws, or it answers with
\* a status and a body
Bodies ==
  {[json |-> "invalid", len |-> 0], [json |-> "object", len |-> 0]}
    \cup {[json |-> "array", len |-> n] : n \in 0..2}

Answers ==
  {[net |-> "failed", status |-> 0, body |-> NoBody]}
    \cup {[net |-> "ok", status |-> st, body |-> b] : st \in {200, 404, 500}, b \in Bodies}

\* Response.ok
Ok(code) == code \in 200..299

\* a validation that only asks for JSON that parses
ValidatedParses(body) == body.json # "invalid"

\* JSON.parse succeeds, Array.isArray(parsed) and parsed.length is not 0
Validated(body) == body.json = "array" /\ body.len # 0

jsonError(code, message) ==
  [status |-> code, body |-> NoBody, error |-> message, hit |-> FALSE]

\* the response handleTleRequest builds for an answer of the upstream
TleResponse(ans) ==
  IF ans.net = "failed" THEN jsonError(502, "Celestrak fetch failed")
  ELSE IF ~Ok(ans.status) THEN jsonError(502, "Celestrak returned HTTP")
  ELSE IF ans.body.json = "invalid"
    THEN jsonError(502, "Celestrak response is not valid JSON")
  ELSE IF ~Validated(ans.body)
    THEN jsonError(502, "Celestrak response is not a non-empty JSON array")
  ELSE [status |-> 200, body |-> ans.body, error |-> "", hit |-> FALSE]

\* a request arrives: cache.match answers it, or the upstream is asked
TleRequest ==
  /\ tle.stage = "idle"
  /\ tle.requests < MaxRequests
  /\ IF tle.cache # NoAnswer
       THEN tle' = [tle EXCEPT !.requests = @ + 1,
                               !.resp = [status |-> 200, body |-> tle.cache.body,
                                         error |-> "", hit |-> TRUE]]
       ELSE tle' = [tle EXCEPT !.requests = @ + 1, !.stage = "fetching",
                               !.fetches = @ + 1]
  /\ UNCHANGED <<clientVars, codec, slugRun, indexRun, kb>>

\* the upstream answers; a response of 200 is handed to cache.put, which
\* waitUntil runs after the response is sent
TleAnswer(ans) ==
  /\ tle.stage = "fetching"
  /\ tle' = [tle EXCEPT !.stage = "idle", !.last = ans, !.resp = TleResponse(ans),
                        !.put = IF TleResponse(ans).status = 200 THEN ans ELSE @]
  /\ UNCHANGED <<clientVars, codec, slugRun, indexRun, kb>>

\* the deferred cache.put lands
TlePut ==
  /\ tle.put # NoAnswer
  /\ tle' = [tle EXCEPT !.cache = tle.put, !.put = NoAnswer]
  /\ UNCHANGED <<clientVars, codec, slugRun, indexRun, kb>>

\* the entry outlives max-age and the edge drops it
TleExpire ==
  /\ tle.cache # NoAnswer
  /\ tle.stage = "idle"
  /\ tle' = [tle EXCEPT !.cache = NoAnswer]
  /\ UNCHANGED <<clientVars, codec, slugRun, indexRun, kb>>

InitTle ==
  /\ InitClient([posts |-> <<>>, now |-> 1])
  /\ codec = CodecIdle
  /\ slugRun = SlugIdle
  /\ indexRun = IndexIdle
  /\ kb = KbIdle
  /\ tle = TleIdle

NextTle ==
  \/ TleRequest
  \/ \E ans \in Answers : TleAnswer(ans)
  \/ TlePut
  \/ TleExpire

SpecTle == InitTle /\ [][NextTle]_vars

\* ------------------------------------------------------------ properties

\* the tree a settled workflow read the branch head at, and the tree it committed
TreeBefore == commits[done.commitSha].tree

TreeAfter == commits[done.commit].tree

NoDuplicates(q) == \A i \in 1..Len(q) : \A j \in 1..Len(q) : q[i] = q[j] => i = j

\* C1: from a consistent collection, after every completed create, edit or
\* delete the stored posts form a simple doubly linked list: A.nextSlug = B
\* exactly when B.prevSlug = A, no post reaches itself along nextSlug, at most
\* one post has a null prevSlug and at most one a null nextSlug.  (Stated for
\* the runs in which no create took a slug already stored.)
C1_LinkedList == ~done.reused => LinkedList(HeadTree.posts)

\* C2: after every completed workflow the slugs of the index post rows, top
\* to bottom, are the walk from the post whose prevSlug is null along
\* nextSlug.  (Stated for the runs in which no create took a stored slug.)
C2_IndexIsChronology ==
  ~done.reused => RowSlugs(HeadTree.index) = Chronology(HeadTree.posts)

\* C5: every committed changeset is computed from contents read after the
\* save or the last confirmation was dispatched.
C5_ReadAfterDispatch ==
  (done.kind # "none" /\ done.ok) => \A r \in done.reads : r.dispatched

\* C6: no two index post rows carry the same slug, and a create under the
\* slug of a stored post does not overwrite that post's document.
C6_UniqueSlugs ==
  /\ NoDuplicates(RowSlugs(HeadTree.index))
  /\ (done.kind = "new" /\ done.ok /\ done.slug \in DOMAIN TreeBefore.posts) =>
       TreeAfter.posts[done.slug] = TreeBefore.posts[done.slug]

\* the paths a changeset names
FilePaths(files) == {files[i].path : i \in 1..Len(files)}

\* C10: a create of a new post N on a consistent collection whose head is H
\* commits exactly N's document, the index and H's document (N's document
\* and the index when the collection is empty); afterwards N.prevSlug is
\* null, N.nextSlug is H, H.prevSlug is N with H.nextSlug unchanged, N's row
\* is the first post row, directly above H's, and the count is one higher.
C10_CreateAtHead ==
  (/\ done.kind = "new"
   /\ done.ok
   /\ Consistent(TreeBefore)
   /\ done.slug \notin DOMAIN TreeBefore.posts) =>
    LET N == done.slug
        H == IF Chronology(TreeBefore.posts) = <<>> THEN Null
             ELSE Chronology(TreeBefore.posts)[1]
    IN  /\ FilePaths(done.files) =
             {PostPath(N), IndexPath} \cup (IF H = Null THEN {} ELSE {PostPath(H)})
        /\ PrevOf(TreeAfter.posts, N) = Null
        /\ NextOf(TreeAfter.posts, N) = H
        /\ H # Null => /\ PrevOf(TreeAfter.posts, H) = N
                       /\ NextOf(TreeAfter.posts, H) = NextOf(TreeBefore.posts, H)
        /\ RowSlugs(TreeAfter.index) = <<N>> \o RowSlugs(TreeBefore.index)
        /\ TreeAfter.index.count[1] = TreeBefore.index.count[1] + 1

\* the entries of a changeset that name path p
EntriesFor(files, p) == {i \in 1..Len(files) : files[i].path = p}

\* the slugs whose documents a changeset names
SlugsNamed(files) == {files[i].path[2] : i \in {j \in 1..Len(files) : Len(files[j].path) = 2}}

\* tree t is tree base with every entry of files laid over it: a path no
\* entry names is as in base, a written path holds what an entry wrote to it,
\* a deleted path is gone
OverlaidBy(base, files, t) ==
  /\ t.misc = base.misc
  /\ IF EntriesFor(files, IndexPath) = {} THEN t.index = base.index
     ELSE \E i \in EntriesFor(files, IndexPath) : t.index = files[i].idx
  /\ \A g \in (DOMAIN base.posts) \cup (DOMAIN t.posts) \cup SlugsNamed(files) :
       LET E == EntriesFor(files, PostPath(g))
       IN  IF E = {}
           THEN /\ g \in DOMAIN t.posts <=> g \in DOMAIN base.posts
                /\ g \in DOMAIN t.posts => t.posts[g] = base.posts[g]
           ELSE \/ g \notin DOMAIN t.posts /\ \E i \in E : files[i].delete
                \/ /\ g \in DOMAIN t.posts
                   /\ \E i \in E : ~files[i].delete /\ t.posts[g] = files[i].doc

\* a step of the client, as against one of the other writer or of the host
ClientStep == pc' # pc

CommitSucceeds == pc = "patch" /\ ClientStep /\ done'.ok

\* C3: when another writer has advanced the branch head after step 1 read it,
\* step 5 does not move the branch: the head stays at the other writer's
\* commit, the call fails, with Conflict whenever the host accepts the token,
\* and the commit that was refused is never the branch head or one of its
\* ancestors, so nothing of the changeset can be read from the branch.
C3_ConflictOnRace ==
  /\ [][(pc = "patch" /\ ClientStep /\ head # mc.commitSha) =>
          /\ head' = head
          /\ ~done'.ok
          /\ done'.commit = mc.commit
          /\ ~Denied(wf.token) => done'.error = Conflict]_vars
  /\ []((done.kind # "none" /\ ~done.ok /\ done.commit # 0) =>
          ~IsAncestor(commits, done.commit, head))

C3_Raced == done.kind # "none" /\ done.error = Conflict /\ done.headAt # done.commitSha

\* C4: a successful multiCommit moves the branch head once, at step 5, from
\* the head read in step 1 to one new commit whose parent is that head and
\* whose tree is that head's tree with every entry of the changeset laid over
\* it; every other step of the client, a failing one included, leaves the
\* branch head and the files readable from it as they were; no commit object
\* ever changes.
C4_AtomicCommit ==
  [][/\ ClientStep =>
          IF CommitSucceeds
          THEN /\ head = mc.commitSha
               /\ head' = Len(commits)
               /\ head' # head
               /\ commits[head'].parent = mc.commitSha
               /\ OverlaidBy(commits[mc.commitSha].tree, wf.files, commits[head'].tree)
          ELSE head' = head /\ commits'[head'].tree = commits[head].tree
     /\ \A i \in 1..Len(commits) : commits'[i] = commits[i]]_vars

C4_Committed ==
  /\ done.kind # "none"
  /\ done.ok
  /\ head = done.commit
  /\ done.commitSha # 1
  /\ \E i \in 1..Len(done.files) : done.files[i].delete

\* the number of post rows, counted row by row
PostRows(html) == Cardinality({i \in 1..Len(html.rows) : html.rows[i].k = "row"})

YearOf(rows, i) ==
  LET above == {j \in 1..i : rows[j].k = "year"}
  IN  IF above = {} THEN <<>>
      ELSE rows[CHOOSE j \in above : \A l \in above : l <= j].head

\* rows without the n rows that end at position p
Without(rows, p, n) == SubSeq(rows, 1, p - n) \o SubSeq(rows, p + 1, Len(rows))

\* C14: addToIndex puts the new row directly after the month header that
\* lies inside the group of the year of the date: alone when that year group
\* holds the month, with a new month header when the year has a group
\* without that month, with a new year header and a new month header at the
\* top of the table body when the year has no group; the other rows stay.
C14_RowInItsYear ==
  indexRun.stage = "insert" =>
    LET h == indexRun.html.rows
        o == indexRun.out.rows
        y == indexRun.date.y
        month == MonthHeader(MONTHS[indexRun.date.m])
        hasYearGroup == \E i \in 1..Len(h) : h[i] = YearHeader(y)
        hasMonthInYear == \E i \in 1..Len(h) : h[i] = month /\ YearOf(h, i) = <<y>>
    IN  \E p \in 2..Len(o) : \E n \in 1..3 :
          /\ p >= n
          /\ Without(o, p, n) = h
          /\ o[p].k = "row" /\ o[p].slug = indexRun.slug /\ o[p].date = indexRun.date
          /\ o[p - 1] = month
          /\ YearOf(o, p) = <<y>>
          /\ n = 1 <=> hasMonthInYear
          /\ n = 3 <=> ~hasYearGroup
          /\ n = 3 => p = 3 /\ o[1] = YearHeader(y)

\* C15: removeFromIndex takes out the one post row whose link leads to the
\* slug and leaves every other row and every header as it was and where it
\* was; an index with no row for the slug comes back unchanged.
C15_RemovesThatRow ==
  indexRun.stage = "remove" =>
    LET h == indexRun.html.rows
        o == indexRun.out.rows
        targets == {i \in 1..Len(h) : h[i].k = "row" /\ h[i].slug = indexRun.slug}
    IN  IF targets = {} THEN indexRun.out = indexRun.html
        ELSE \E i \in targets : o = Without(h, i, 1)

\* the tree at the head that step 1 read, and the tree of the commit step 5 sets
ReadTree == commits[mc.commitSha].tree

SetTree == commits'[head'].tree

C12_EditKeepsOrder ==
  (done.kind = "edit" /\ done.ok) =>
    RowSlugs(TreeAfter.index) = RowSlugs(TreeBefore.index)

\* C13: an edit commits the document of the edited post and the index and
\* nothing else; the new document has the slug, date, prevSlug and nextSlug
\* of the stored one, the index count is as stored, and the type of the
\* document and the abbreviation in its index row are those of the saved type.
C13_EditInPlace ==
  [][(CommitSucceeds /\ wf.kind = "edit" /\ wf.slug \in DOMAIN ReadTree.posts) =>
       LET E      == wf.slug
           stored == parsePost(ReadTree.posts[E])
           new    == parsePost(SetTree.posts[E])
           rows   == SetTree.index.rows
       IN  /\ Len(wf.files) = 2
           /\ FilePaths(wf.files) = {PostPath(E), IndexPath}
           /\ new.slug = stored.slug
           /\ new.date = stored.date
           /\ new.prevSlug = stored.prevSlug
           /\ new.nextSlug = stored.nextSlug
           /\ SetTree.index.count = ReadTree.index.count
           /\ new.type = wf.r.type
           /\ \E i \in 1..Len(rows) : rows[i].k = "row" /\ rows[i].slug = E
           /\ \A i \in 1..Len(rows) :
                (rows[i].k = "row" /\ rows[i].slug = E) =>
                  rows[i].ts = (IF wf.r.type = "spoken" THEN "spkn" ELSE "writ")]_vars

\* C16: getNewestSlug gives null exactly when the index holds no post row,
\* and otherwise the slug of the stored post whose prevSlug is null.  (Stated
\* for the runs in which no create took a slug already stored.)
C16_NewestIsHead ==
  ~done.reused =>
    LET newest == getNewestSlug(HeadTree.index)
    IN  /\ newest = Null <=> RowCount(HeadTree.index.rows) = 0
        /\ newest # Null => /\ newest \in DOMAIN HeadTree.posts
                            /\ PrevOf(HeadTree.posts, newest) = Null

\* C17: updatePostNav changes the nav block and nothing else: what stands
\* before the opening of nav.post-nav and after its closing tag is the same
\* in the document it is given and in the one it returns, and the returned
\* document decodes to the given prevSlug and nextSlug with the slug, date,
\* type, content and tags of the given one.
C17_OnlyNavChanges ==
  codec.stage = "patched" =>
    /\ [codec.patched EXCEPT !.nav = codec.html.nav] = codec.html
    /\ codec.out = [parsePost(codec.html) EXCEPT !.prevSlug = codec.links[1],
                                                 !.nextSlug = codec.links[2]]

\* C18: between the dispatch of a save and its settlement no second save is
\* dispatched: at most one save of the editor is in flight.
C18_OneInFlight == Len(kb.pending) <= 1

\* C19: command mode is entered only by Escape; it is left by Enter, by
\* Escape, or by a Backspace that empties the buffer, and by nothing else;
\* after Enter, whatever the buffer held, the editor is closed or is out of
\* command mode with an empty buffer.
C19_ModeMachine ==
  [][/\ (~kb.cmdMode /\ kb'.cmdMode) => kb'.key = "Escape"
     /\ (kb.cmdMode /\ ~kb'.cmdMode) =>
          \/ kb'.key \in {"Enter", "Escape"}
          \/ kb'.key = "Backspace" /\ kb'.cmdBuf = <<>>
     /\ (kb.cmdMode /\ kb'.key \in {"Enter", "Escape"}) => ~kb'.cmdMode
     /\ (kb.cmdMode /\ kb'.key = "Backspace") => (kb'.cmdMode <=> kb'.cmdBuf # <<>>)
     /\ (kb.cmdMode /\ kb'.key = "Enter") =>
          ~kb'.open \/ (~kb'.cmdMode /\ kb'.cmdBuf = <<>>)]_vars

C19_EnterRejected ==
  /\ kb.key = "Enter"
  /\ kb.open
  /\ kb.status = "need a slug"
  /\ ~kb.cmdMode
  /\ kb.cmdBuf = <<>>

\* C20: Enter on q, q!, t or a command execCmd does not know starts no save;
\* an unknown command leaves the type, the fields and the editor as they
\* were and shows the unknown-command status; t turns spoken into written
\* and written into spoken and leaves the fields as they were.
C20_NoSideEffects ==
  [][(kb.open /\ kb.cmdMode /\ kb'.key = "Enter" /\ CmdText(kb.cmdBuf) \notin SaveCmds) =>
       /\ kb'.saves = kb.saves
       /\ kb'.pending = kb.pending
       /\ CmdText(kb.cmdBuf) = <<"t">> =>
            /\ kb'.typeVal # kb.typeVal
            /\ kb'.typeVal \in {"spoken", "written"}
            /\ kb'.fields = kb.fields
            /\ kb'.open
       /\ CmdText(kb.cmdBuf) \notin QuitCmds \cup {<<"t">>} =>
            /\ kb'.typeVal = kb.typeVal
            /\ kb'.fields = kb.fields
            /\ kb'.open
            /\ kb'.status = "unknown"]_vars

C20_UnknownShown ==
  /\ kb.key = "Enter"
  /\ kb.open
  /\ kb.status = "unknown"
  /\ kb.fields.content # <<>>

\* C21: Enter on w or wq in an editor whose slug comes out empty, or whose
\* content is empty or only white space, shows an error status, calls onSave
\* not at all, and leaves the branch, the commits and the stored token alone.
C21_ValidationStops ==
  [][(/\ kb.open /\ kb.cmdMode /\ kb'.key = "Enter" /\ CmdText(kb.cmdBuf) \in SaveCmds
      /\ \/ Trim(kb.fields.content) = <<>>
         \/ /\ kb.mode = "new"
            /\ slugify(IF Trim(kb.fields.slug) # <<>> THEN Trim(kb.fields.slug)
                        ELSE Slice(kb.fields.content, TitleMax)) = <<>>) =>
       /\ kb'.saves = kb.saves
       /\ kb'.pending = kb.pending
       /\ kb'.status \in {"need a slug", "no content"}
       /\ kb'.open
       /\ UNCHANGED <<head, commits, token, pc>>]_vars

C21_SlugMissing ==
  /\ kb.key = "Enter"
  /\ kb.status = "need a slug"
  /\ Trim(kb.fields.content) # <<>>
  /\ kb.saves = 0

\* C22: Enter on w leaves the editor open, and so does the settlement of a w,
\* success or failure; the settlement of a wq closes the editor when the save
\* succeeded and leaves it open with the error shown when it failed; Enter on
\* wq closes nothing by itself; Enter on q or q! closes the editor at once.
C22_WhenItCloses ==
  [][/\ (kb.open /\ kb.cmdMode /\ kb'.key = "Enter" /\ CmdText(kb.cmdBuf) \in SaveCmds)
          => kb'.open
     /\ (kb.open /\ kb.cmdMode /\ kb'.key = "Enter" /\ CmdText(kb.cmdBuf) \in QuitCmds)
          => ~kb'.open
     /\ (Len(kb'.pending) < Len(kb.pending)) =>
          /\ kb'.key \in {"Settle w", "Settle wq"}
          /\ kb'.key = "Settle w" =>
               /\ kb'.open = kb.open
               /\ kb'.status \in {"committed", "error"}
          /\ kb'.key = "Settle wq" =>
               \/ kb'.open = kb.open /\ kb'.status = "error"
               \/ ~kb'.open /\ kb'.status = kb.status]_vars

C22_FailedWqStaysOpen ==
  /\ kb.key = "Settle wq"
  /\ kb.open
  /\ kb.status = "error"

\* C23: deleteEntry's reads start only on a d pressed in a dialog that has
\* already taken two, and then the dialog takes no further key; each d moves
\* the dialog one stage on, a dialog opens at stage 0, and any other key at
\* stage 0, 1 or 2 removes the dialog with no request begun and the branch,
\* the commits and the token as they were.
C23_ThreeTimesD ==
  [][/\ (pc' = "deleteReadPost" /\ pc # "deleteReadPost") =>
          /\ pc = "confirm"
          /\ wf.stage = 2
          /\ wf'.stage = 3
          /\ wf'.slug = wf.slug
     /\ (pc' = "confirm" /\ pc # "confirm") => (pc \in {"idle", "prompt"} /\ wf'.stage = 0)
     /\ (pc = "confirm" /\ pc' = "confirm" /\ wf' # wf) =>
          /\ wf'.stage = wf.stage + 1
          /\ wf'.stage \in {1, 2}
          /\ UNCHANGED <<head, commits, token, ops>>
     /\ (pc = "confirm" /\ pc' \notin {"confirm", "deleteReadPost"}) =>
          /\ pc' = "idle"
          /\ wf' = NoWorkflow
          /\ mc' = NoCommit
          /\ UNCHANGED <<head, commits, token, ops, done>>
     /\ (wf'.kind = "delete" /\ wf.kind # "delete") => (pc = "confirm" /\ wf.stage = 2)]_vars

C23_ThirdD ==
  /\ pc = "deleteReadPost"
  /\ wf.stage = 3
  /\ wf.kind = "delete"
  /\ ops = 1

\* the positions at which a read of a workflow is in flight
ReadStages ==
  {"editReadPost", "editReadIndex", "newReadIndex", "newReadNewest",
   "deleteReadPost", "deleteReadIndex", "deleteReadAdjacent"}

\* the positions at which a step of multiCommit is in flight
CommitStages == {"ref", "commit", "tree", "newCommit", "patch"}

\* C24: while a read of a workflow is in flight the client changes neither
\* branch nor commits and multiCommit has not begun; a read the host refuses,
\* or a read of a document that is not stored, is not followed by a step of
\* multiCommit; and multiCommit begins after the reads only when no read of
\* a neighbour is outstanding.
C24_NoCommitAfterFailedRead ==
  [][(pc \in ReadStages) =>
       /\ mc = NoCommit
       /\ (others' = others) => UNCHANGED <<head, commits>>
       /\ Denied(wf.token) => (pc' \notin CommitStages /\ mc' = NoCommit)
       /\ (pc \in {"editReadPost", "deleteReadPost"} /\ wf.slug \notin DOMAIN HeadTree.posts)
            => (pc' \notin CommitStages /\ mc' = NoCommit)
       /\ (pc' \in CommitStages) => (pc' = "ref" /\ wf'.adj = {} /\ ~Denied(wf.token))
       /\ (pc' \notin ReadStages \cup CommitStages) =>
            \/ pc' = "editor" /\ pc = "editReadIndex"
            \/ pc' = "idle" /\ pc \in {"editReadPost", "editReadIndex"}
            \/ /\ done'.error # NoError
               /\ done'.commitSha = 0
               /\ done'.commit = 0
               /\ done'.headAt = head]_vars

\* a delete that read one neighbour and was refused the other
C24_OneNeighbourRead ==
  /\ done.kind = "delete"
  /\ ~done.ok
  /\ done.commitSha = 0
  /\ \E r \in done.reads : r.path \notin {IndexPath, PostPath(done.slug)}
  /\ pc = "deleteFailed"
  /\ Len(commits) = 1 + others

\* the place of a request in the chain of a workflow
StageRank(p) ==
  CASE p \in {"newReadIndex", "deleteReadPost"} -> 1
    [] p \in {"newReadNewest", "deleteReadIndex"} -> 2
    [] p = "deleteReadAdjacent" -> 3
    [] p = "ref" -> 4
    [] p = "commit" -> 5
    [] p = "tree" -> 6
    [] p = "newCommit" -> 7
    [] p = "patch" -> 8
    [] OTHER -> 0

\* C25: a workflow asks for its requests in the order of its chain and for
\* none of them twice (the reads of the two neighbours of a delete are the
\* only ones at one place); a request begins only where the user dispatches
\* a save or confirms a delete, or where the request before it succeeded; a
\* failure, the Conflict of step 5 among them, ends the workflow with no
\* request in flight and with the error of the host in the status.
C25_NoRetry ==
  [][/\ (StageRank(pc) > 0 /\ StageRank(pc') > 0 /\ pc' # pc) => StageRank(pc') > StageRank(pc)
     /\ (StageRank(pc) > 0 /\ StageRank(pc') > 0 /\ pc' = pc /\ wf' # wf) =>
          /\ pc = "deleteReadAdjacent"
          /\ wf'.adj # wf.adj
          /\ wf'.adj \subseteq wf.adj
     /\ (StageRank(pc) > 0 /\ StageRank(pc') > 0) => (ops' = ops /\ done' = done)
     /\ (StageRank(pc) = 0 /\ StageRank(pc') > 0) =>
          /\ pc \in {"editor", "confirm"}
          /\ ops' = ops + 1
     /\ (StageRank(pc) > 0 /\ StageRank(pc') = 0) =>
          /\ done'.kind = wf.kind
          /\ wf' = NoWorkflow
          /\ ~done'.ok =>
               /\ status'.error = done'.error
               /\ status'.error # NoError
               /\ pc' \in {"editor", "deleteFailed"}
               /\ head' = head
     /\ (pc = "patch" /\ others' = others /\ valid' = valid /\ ~Denied(wf.token)
           /\ ~IsAncestor(commits, head, mc.commit)) =>
          /\ status'.error = Conflict
          /\ pc' \in {"editor", "deleteFailed"}]_vars

C25_ConflictShown ==
  /\ done.error = Conflict
  /\ status.error = Conflict
  /\ pc \in {"editor", "deleteFailed"}
  /\ wf = NoWorkflow
  /\ head # done.commit

\* C26: when a step of multiCommit begun by a save is answered 401, the
\* branch and the tree at its head are what they were, the commit the save
\* prepared is not on the branch, the stored token is removed, and the editor
\* is open with the refusal in its status.
C26_SaveRefused ==
  [][(pc \in CommitStages /\ wf.kind \in {"new", "edit"} /\ Denied(wf.token)
        /\ others' = others /\ valid' = valid) =>
       /\ head' = head
       /\ HeadTree' = HeadTree
       /\ mc.commit # 0 => ~IsAncestor(commits', mc.commit, head')
       /\ token' = NoToken
       /\ pc' = "editor"
       /\ ed' = ed
       /\ status'.text = "bad token"
       /\ status'.error = AuthError
       /\ done'.error = AuthError]_vars

\* a save refused at step 5, its commit object made and left off the branch
C26_RefusedAtPatch ==
  /\ done.kind \in {"new", "edit"}
  /\ done.error = AuthError
  /\ done.commit # 0
  /\ token = NoToken
  /\ pc = "editor"
  /\ status.text = "bad token"

\* C27: once a request of a workflow has been answered 401 or 403, the stored
\* token is gone.
C27_AuthClearsToken == MentionsAuth(done.error) => token = NoToken

\* C28: no request is sent while the stored token is gone: after a refusal
\* has removed it, a request waits for requireAuth to have stored a new one.
C28_AsksAgain == InFlight => token # NoToken

\* C29: when the requests of a workflow end on a failure, the reads of an
\* edit before its editor opens among them, an overlay is up and its status
\* holds the error.
C29_FailureShown ==
  [][(/\ pc \in ReadStages \cup CommitStages
      /\ pc' \notin ReadStages \cup CommitStages
      /\ \/ pc \in {"editReadPost", "editReadIndex"} /\ pc' # "editor"
         \/ pc \notin {"editReadPost", "editReadIndex"} /\ ~done'.ok) =>
       /\ pc' \in {"editor", "deleteFailed"}
       /\ status'.error # NoError]_vars

\* C30: a workflow that has read a post document without its nav block does
\* not commit.
C30_AbortsOnMalformed ==
  ~(/\ done.ok
    /\ \E r \in done.reads :
         /\ r.path # IndexPath
         /\ r.path[2] \in DOMAIN commits[done.commitSha].tree.posts
         /\ ~commits[done.commitSha].tree.posts[r.path[2]].hasNav)

\* C31: Enter on q or q! calls onSave not at all and leaves branch and
\* commits alone; no key takes a save out of the saves in flight: a key
\* leaves them as they are or, being Enter on w or wq, adds one, so that a
\* save goes on to settle with the editor open or closed.
C31_NoCancel ==
  [][/\ (kb.open /\ kb.cmdMode /\ kb'.key = "Enter" /\ CmdText(kb.cmdBuf) \in QuitCmds) =>
          /\ kb'.saves = kb.saves
          /\ kb'.pending = kb.pending
          /\ UNCHANGED <<head, commits, pc, token>>
     /\ (kb'.key \notin {"Settle w", "Settle wq"}) =>
          \/ kb'.pending = kb.pending
          \/ /\ kb'.key = "Enter"
             /\ kb'.saves = kb.saves + 1
             /\ \E cmd \in SaveCmds : kb'.pending = Append(kb.pending, cmd)
     /\ (kb'.key \in {"Settle w", "Settle wq"}) => Len(kb'.pending) = Len(kb.pending) - 1]_vars

\* the one save of an editor, a w, settles after q has closed the editor
C31_SettledAfterQuit ==
  /\ kb.key = "Settle w"
  /\ ~kb.open
  /\ kb.saves = 1
  /\ kb.pending = <<>>


\* C32: the edge cache only ever receives a body that was fetched with an ok
\* status and is a non-empty JSON array; an upstream failure (the fetch throws,
\* a status that is not ok, text that is not JSON, JSON that is not an array
\* or is an empty one) is answered with 502 and an error body and hands
\* nothing to the cache; a request the cache answers does not reach the
\* upstream.
FromGoodAnswer(entry) ==
  entry = NoAnswer \/ (entry.net = "ok" /\ Ok(entry.status) /\ entry.body.json = "array" /\ entry.body.len > 0)

FailedAnswer(ans) ==
  ans.net = "failed" \/ ans.status \notin 200..299 \/ ans.body.json # "array" \/ ans.body.len = 0

C32_CacheOnlyValidated ==
  [][/\ FromGoodAnswer(tle'.cache) /\ FromGoodAnswer(tle'.put)
     /\ (tle.stage = "fetching" /\ tle'.stage = "idle" /\ FailedAnswer(tle'.last))
          => /\ tle'.resp.status = 502
             /\ tle'.resp.error # ""
             /\ tle'.resp.body = NoBody
             /\ tle'.cache = tle.cache
             /\ tle'.put = tle.put
     /\ (tle'.requests # tle.requests /\ tle.cache # NoAnswer)
          => /\ tle'.resp.hit
             /\ tle'.resp.body = tle.cache.body
             /\ tle'.fetches = tle.fetches
             /\ tle'.stage = "idle"]_vars

\* a request failed upstream while an earlier good body was about to be
\* cached, and a later request was answered from the cache
C32_FailedThenHit ==
  /\ tle.resp.hit
  /\ tle.requests = 3
  /\ tle.fetches = 2
  /\ FailedAnswer(tle.last)
  /\ tle.last.net = "ok"
  /\ tle.last.body.json = "array"

\* C33: when this client's create and another writer's create have both been
\* committed, the index holds the rows of both new posts and the chain from
\* the post without prevSlug along nextSlug passes through both: a create
\* whose index read is older than the other writer's commit does not succeed.
C33_BothCreatesKept ==
  (/\ done.kind = "new"
   /\ done.ok
   /\ ~done.reused
   /\ head = done.commit
   /\ <<"x">> \in DOMAIN HeadTree.posts) =>
    /\ \E i \in 1..Len(RowSlugs(HeadTree.index)) : RowSlugs(HeadTree.index)[i] = <<"x">>
    /\ \E i \in 1..Len(RowSlugs(HeadTree.index)) : RowSlugs(HeadTree.index)[i] = done.slug
    /\ \E i \in 1..Len(Chronology(HeadTree.posts)) : Chronology(HeadTree.posts)[i] = <<"x">>
    /\ \E i \in 1..Len(Chronology(HeadTree.posts)) : Chronology(HeadTree.posts)[i] = done.slug

\* C34: when w is given a second time in a new-post editor whose first save
\* has committed, with the fields as they were, the commit of the second save
\* leaves one index row for the slug and a document that names neither itself
\* as its neighbour, and its changeset names no path twice.
C34_SecondSaveSame ==
  [][(CommitSucceeds /\ wf.kind = "new" /\ wf.again) =>
       /\ Cardinality({i \in 1..Len(RowSlugs(SetTree.index)) :
                         RowSlugs(SetTree.index)[i] = wf.slug}) = 1
       /\ NextOf(SetTree.posts, wf.slug) # wf.slug
       /\ PrevOf(SetTree.posts, wf.slug) # wf.slug
       /\ \A e \in 1..Len(wf.files) : EntriesFor(wf.files, wf.files[e].path) = {e}]_vars

\* C35: once the delete started from the confirmation dialog has settled,
\* with success or with an error, the dialog is removed in the end and the
\* keys of the page (n, e, d, navigation) are served again.
C35_DialogGoes == (pc \in {"deleted", "deleteFailed"}) ~> (pc = "idle")

\* the changeset of a delete of D from tree t as a set of entries: no order
ExpectedDelete(t, D) ==
  LET P  == parsePost(t.posts[D]).prevSlug
      Nx == parsePost(t.posts[D]).nextSlug
  IN  {DeletePost(D), WriteIndex(removeFromIndex(t.index, D))}
        \cup (IF P = Null THEN {}
              ELSE {WritePost(P, updatePostNav(t.posts[P], parsePost(t.posts[P]).prevSlug, Nx))})
        \cup (IF Nx = Null THEN {}
              ELSE {WritePost(Nx, updatePostNav(t.posts[Nx], P, parsePost(t.posts[Nx]).nextSlug))})

\* C36: the changeset a delete commits, taken as what it does to each path, is
\* the same whichever neighbour read is answered first, and multiCommit is not
\* entered before both neighbour reads have been answered.
C36_OrderFree ==
  [][/\ (pc # "ref" /\ pc' = "ref" /\ wf'.kind = "delete") => wf'.adj = {}
     /\ (CommitSucceeds /\ wf.kind = "delete" /\ wf.slug \in DOMAIN ReadTree.posts) =>
          /\ {wf.files[i] : i \in 1..Len(wf.files)} = ExpectedDelete(ReadTree, wf.slug)
          /\ Len(wf.files) = Cardinality(ExpectedDelete(ReadTree, wf.slug))]_vars

\* a delete committed after the older neighbour answered before the newer one
C36_NextAnsweredFirst ==
  /\ done.kind = "delete"
  /\ done.ok
  /\ Len(done.files) = 4
  /\ done.files[3].path = PostPath(NextOf(TreeBefore.posts, done.slug))
  /\ done.files[4].path = PostPath(PrevOf(TreeBefore.posts, done.slug))

\* C37: updatePostNav is idempotent: applied again with the same prevSlug and
\* nextSlug to the document it returned, it returns that document unchanged.
C37_PatchTwice ==
  [][(codec.stage = "patched" /\ codec'.steps = codec.steps + 1 /\ codec'.links = codec.links) =>
       codec'.patched = codec.patched]_vars

\* the stages at which a request to the host is outstanding
RequestStages == ReadStages \cup CommitStages

\* C38: nothing starts and no request is sent without a stored token: with
\* none stored, newEntry, editEntry and deleteEntry put up the prompt first;
\* Enter on a value stores it and starts the workflow; Escape takes the prompt
\* away, stores nothing and starts nothing.
C38_NeedsCredential ==
  [][/\ (pc = "idle" /\ pc' # "idle" /\ token = NoToken) => pc' = "prompt"
     /\ (pc = "prompt" /\ pc' = "idle") => (token' = NoToken /\ wf' = NoWorkflow /\ ed' = ed)
     /\ (pc = "prompt" /\ pc' \notin {"prompt", "idle"}) =>
          (token' # NoToken /\ pc' \in {"editor", "editReadPost", "confirm"})
     /\ (pc' \in RequestStages /\ pc \notin RequestStages) => token # NoToken]_vars

\* C39: the stored token is removed only when the request that failed was
\* answered with status 401 or 403; a failure with any other status leaves it
\* stored, whatever the body of the response says.
C39_OnlyOnAuthStatus ==
  [][(token # NoToken /\ token' = NoToken) => done'.error.code \in {401, 403}]_vars
====
